---- MODULE Spec2Model ----
(***************************************************************************)
(* bakery: a build system for C/C++.                                       *)
(*                                                                         *)
(* The module models                                                       *)
(*   - the task scheduler of src/main.rs                                   *)
(*     (execute_task_and_its_dependencies), specification SpecSched;       *)
(*   - the project graph resolver, the incremental build cache and the     *)
(*     build orchestration, both as the tasks of src/task (Build, Run)     *)
(*     that main registers and as the methods of Project in                *)
(*     src/project.rs (Project::build, Project::run), specification Spec;  *)
(*     SpecRetry is the build subcommand with object files removed         *)
(*     between the runs;                                                   *)
(*   - the parallel fold and reduce of a batch (Build::build) on its own,  *)
(*     specification SpecFold;                                             *)
(*   - the name check of Project::open on its own, specification SpecName. *)
(* SpecBuild is the build subcommand with every tool location set,         *)
(* SpecDiamond the build of a project whose dependencies share a           *)
(* dependency, SpecOpen Project::open on trees with a faulty project,      *)
(* SpecObjects the object file paths of Build::compile_source_file,        *)
(* SpecSchedAny and SpecSchedPartial the scheduler on tables with a cycle  *)
(* and on tables that name an unregistered task.                           *)
(***************************************************************************)
EXTENDS Integers, Sequences, FiniteSets, TLC

(***************************************************************************)
(* Sequence helpers                                                        *)
(***************************************************************************)
Range(s) == { s[i] : i \in DOMAIN s }

SeqsUpTo(S, n) == UNION { [1..k -> S] : k \in 0..n }

(***************************************************************************)
(* Part I: the task scheduler (src/main.rs)                                *)
(***************************************************************************)

\* the deepest declared dependency list of a task of the bounded tables
MaxDeps == 2

\* the task ids of the bounded tables, in an order used only to enumerate
\* acyclic tables (a task only declares dependencies of a greater rank)
TaskIds == {"A", "B", "C", "D"}

Rank(t) == CASE t = "A" -> 1 [] t = "B" -> 2 [] t = "C" -> 3 [] t = "D" -> 4

\* the task tables the scheduler is run on: every task declares an ordered
\* list (repetitions allowed) of tasks of a greater rank
TaskTables ==
    { tb \in [TaskIds -> SeqsUpTo(TaskIds, MaxDeps)] :
        \A t \in TaskIds : \A i \in DOMAIN tb[t] : Rank(tb[t][i]) > Rank(t) }

VARIABLES
    tasks,             \* HashMap<&str, Box<dyn Task>>: id -> declared dependencies
    root_task,         \* the task_id argument
    processing_stack,  \* VecDeque, front = head of the sequence
    result_stack,      \* VecDeque, front = head of the sequence
    order,             \* what is left of result_stack.into_iter().unique()
    steps,             \* the on_execute calls made so far, in call order
    spc                \* position in execute_task_and_its_dependencies

\* the variables of the scheduler
svars == <<tasks, root_task, processing_stack, result_stack, order, steps, spc>>

\* the variables of project resolution and build (Part II)
VARIABLES
    \* ---- the file system and the installation
    conf,          \* dir -> the parsed content of its bakery.toml
    conf_rev,      \* dir -> the revision of the bytes of its bakery.toml
    src,           \* <<dir, source>> -> content of the source file
    objs,          \* the object files on disk: <<dir, file name>>
    cache,         \* dir -> content of .bakery/cache/hashes.json, or "missing"
    arts,          \* the files of the build directories: <<dir, file name>>
    bakery_dirs,   \* the directories whose .bakery/build and cache exist
    toolchain,     \* the ToolchainConfiguration of config.toml
    cwd,           \* the directory the tool is run in
    \* ---- one run of the tool
    entry,         \* "task": main and the task table; "method": Project::build/run
    cmd,           \* the subcommand the tool is run with
    phase,         \* "idle" | "running" | "done"
    ctx,           \* TaskContext.project: the opened tree, or "none"
    todo,          \* the tasks still to execute, in execution order
    stack,         \* call stack, the running call last
    ret,           \* the value the last call returned
    batch,         \* the slots of the compile batch: index -> result or "pending"
    log,           \* the tool, file-system and process events of this run
    diag,          \* the errors this run reported
    \* ---- history
    runs,          \* runs started
    edits,         \* changes made
    quiet,         \* no file changed between the previous run and this one
    touched,       \* a file changed since the last run started
    prev_diag,     \* diag of the previous run
    edited,        \* the kinds of the changes made
    removals       \* object files deleted from the build directories

fsvars == <<conf, conf_rev, src, objs, cache, arts, bakery_dirs, toolchain, cwd>>
runvars == <<entry, cmd, phase, ctx, todo, stack, ret, batch, log, diag>>
histvars == <<runs, edits, quiet, touched, prev_diag, edited, removals>>
bvars == <<fsvars, runvars, histvars>>

\* the variables of the parts of the build that are also looked at alone:
\* one parallel fold and reduce over a list of sources (Part III), and the
\* check Project::open makes of a project name (Part IV)
VARIABLES
    fold_sources,  \* the Vec<&String> the batch is called with
    fold_outcome,  \* source -> what compiling and hashing it comes to
    jobs,          \* the pieces the list is split in, in the order of the list
    fold_log,      \* the indices the fold closure was called on, in call order
    fold_result,   \* (hashes, errors) once the reduce has returned
    name_input,    \* the name of [project] in a bakery.toml, a list of characters
    name_result,   \* what Project::open makes of it
    object_sources,  \* the sources of a project, as paths
    object_written,  \* index of a source -> the object file its worker wrote
    object_list      \* the object list of the link step, once collected

foldvars == <<fold_sources, fold_outcome, jobs, fold_log, fold_result>>
namevars == <<name_input, name_result>>
objectvars == <<object_sources, object_written, object_list>>
pvars == <<foldvars, namevars, objectvars>>

vars == <<svars, bvars, pvars>>

\* the scheduler at rest, while the build is looked at
SchedulerIdle ==
    /\ tasks = [t \in TaskIds |-> <<>>]
    /\ root_task = "A"
    /\ processing_stack = <<>>
    /\ result_stack = <<>>
    /\ order = <<>>
    /\ steps = <<>>
    /\ spc = "idle"

\* the build at rest, while the scheduler is looked at
BuildIdle ==
    /\ conf = <<>> /\ conf_rev = <<>> /\ src = <<>> /\ objs = {} /\ cache = <<>>
    /\ arts = {} /\ bakery_dirs = {} /\ toolchain = <<>> /\ cwd = "app"
    /\ entry = "task" /\ cmd = "build" /\ phase = "idle" /\ ctx = <<>>
    /\ todo = <<>> /\ stack = <<>> /\ ret = <<>> /\ batch = <<>> /\ log = <<>>
    /\ diag = <<>> /\ runs = 0 /\ edits = 0 /\ quiet = FALSE /\ touched = FALSE
    /\ prev_diag = <<>> /\ edited = {} /\ removals = 0

\* no fold is looked at alone
FoldIdle ==
    /\ fold_sources = <<>>
    /\ fold_outcome = <<>>
    /\ jobs = <<>>
    /\ fold_log = <<>>
    /\ fold_result = [done |-> FALSE]

\* no name and no object path is looked at alone
NameIdle ==
    /\ name_input = <<>>
    /\ name_result = "unset"
    /\ object_sources = <<>>
    /\ object_written = <<>>
    /\ object_list = <<>>

\* VecDeque::push_front
PushFront(s, x) == <<x>> \o s

\* a plausible slip: the dependencies are pushed last declared first
RECURSIVE PushAllFrontReversed(_, _)
PushAllFrontReversed(s, deps) ==
    IF deps = <<>> THEN s
    ELSE PushAllFrontReversed(PushFront(s, deps[Len(deps)]), SubSeq(deps, 1, Len(deps) - 1))

\* the for loop of lines 103-105: push_front of each dependency, in declared order
RECURSIVE PushAllFront(_, _)
PushAllFront(s, deps) ==
    IF deps = <<>> THEN s
    ELSE PushAllFront(PushFront(s, Head(deps)), Tail(deps))

\* a plausible slip: unique() keeping the last occurrence of each id
RECURSIVE UniqueKeepLast(_)
UniqueKeepLast(s) ==
    IF s = <<>> THEN <<>>
    ELSE IF Head(s) \in Range(Tail(s)) THEN UniqueKeepLast(Tail(s))
         ELSE <<Head(s)>> \o UniqueKeepLast(Tail(s))

\* itertools::Itertools::unique: keeps the first occurrence of each element
RECURSIVE UniqueFrom(_, _)
UniqueFrom(s, seen) ==
    IF s = <<>> THEN <<>>
    ELSE IF Head(s) \in seen THEN UniqueFrom(Tail(s), seen)
         ELSE <<Head(s)>> \o UniqueFrom(Tail(s), seen \cup {Head(s)})

Unique(s) == UniqueFrom(s, {})

SchedInit ==
    /\ tasks \in TaskTables
    /\ root_task \in TaskIds
    /\ processing_stack = <<root_task>>
    /\ result_stack = <<>>
    /\ order = <<>>
    /\ steps = <<>>
    /\ spc = "traverse"
    /\ BuildIdle
    /\ FoldIdle
    /\ NameIdle

\* a plausible slip: a dependency that is already in the record is not
\* pushed again
SchedPopSkippingRecorded ==
    /\ spc = "traverse"
    /\ processing_stack # <<>>
    /\ LET current_task_id == Head(processing_stack)
           Fresh(t) == t \notin Range(result_stack) \cup {current_task_id}
       IN /\ result_stack' = PushFront(result_stack, current_task_id)
          /\ processing_stack' =
                 PushAllFront(Tail(processing_stack),
                              SelectSeq(tasks[current_task_id], Fresh))
    /\ UNCHANGED <<tasks, root_task, order, steps, spc>>
    /\ UNCHANGED <<bvars, pvars>>

\* one iteration of the while loop, lines 100-106
SchedPop ==
    /\ spc = "traverse"
    /\ processing_stack # <<>>
    /\ LET current_task_id == Head(processing_stack)
       IN /\ result_stack' = PushFront(result_stack, current_task_id)
          /\ processing_stack' =
                 PushAllFront(Tail(processing_stack), tasks[current_task_id])
    /\ UNCHANGED <<tasks, root_task, order, steps, spc>>
    /\ UNCHANGED <<bvars, pvars>>

\* the loop ends: line 108, result_stack.into_iter().unique()
SchedUnique ==
    /\ spc = "traverse"
    /\ processing_stack = <<>>
    /\ order' = Unique(result_stack)
    /\ spc' = "execute"
    /\ UNCHANGED <<tasks, root_task, processing_stack, result_stack, steps>>
    /\ UNCHANGED <<bvars, pvars>>

\* one iteration of the for loop, lines 108-110
SchedExecute ==
    /\ spc = "execute"
    /\ order # <<>>
    /\ steps' = Append(steps, Head(order))
    /\ order' = Tail(order)
    /\ UNCHANGED <<tasks, root_task, processing_stack, result_stack, spc>>
    /\ UNCHANGED <<bvars, pvars>>

\* the function returns, line 111
SchedReturn ==
    /\ spc = "execute"
    /\ order = <<>>
    /\ spc' = "done"
    /\ UNCHANGED <<tasks, root_task, processing_stack, result_stack, order, steps>>
    /\ UNCHANGED <<bvars, pvars>>

SchedNext == SchedPop \/ SchedUnique \/ SchedExecute \/ SchedReturn

SpecSched == SchedInit /\ [][SchedNext]_vars

(***************************************************************************)
(* Properties of the scheduler                                             *)
(***************************************************************************)

\* the tasks reachable from t through declared dependencies, t included
RECURSIVE ReachFrom(_, _)
ReachFrom(frontier, seen) ==
    IF frontier \subseteq seen THEN seen
    ELSE LET new == frontier \ seen
         IN ReachFrom(UNION { Range(tasks[t]) : t \in new }, seen \cup new)

Reachable(t) == ReachFrom({t}, {})

\* the transitive dependencies of t (t itself only if it is on a cycle)
TransitiveDeps(t) == ReachFrom(Range(tasks[t]), {})

Acyclic == \A t \in TaskIds : t \notin TransitiveDeps(t)

Occurrences(s, x) == Cardinality({ i \in DOMAIN s : s[i] = x })

\* C1: for an acyclic task table and any root, when
\* execute_task_and_its_dependencies returns, on_execute has been called
\* exactly once for each task reachable from the root (and for no other
\* task), and every transitive dependency of a task was executed strictly
\* before that task, however many paths reach it.
C1_ExactlyOnceDepsFirst ==
    (spc = "done" /\ Acyclic) =>
        /\ \A t \in TaskIds :
               Occurrences(steps, t) = (IF t \in Reachable(root_task) THEN 1 ELSE 0)
        /\ \A i \in DOMAIN steps : \A j \in DOMAIN steps :
               steps[j] \in TransitiveDeps(steps[i]) => j < i

\* a finished run over a diamond: a dependency reached by two paths
C1_Witness ==
    /\ spc = "done"
    /\ root_task = "A"
    /\ tasks["A"] = <<"B", "C">>
    /\ tasks["B"] = <<"C">>
    /\ tasks["C"] = <<"D">>
    /\ Len(result_stack) > Len(steps)
    /\ Len(steps) = 4

(***************************************************************************)
(* The scheduler on tables that may hold a cycle                           *)
(***************************************************************************)

\* the longest record a run that cannot end is followed to
MaxRecord == 8

\* the dependency lists a task may declare here: none, one id, or (for
\* task A) two ids, of any tasks, itself included
OneDependency == {<<>>} \cup { <<t>> : t \in TaskIds }
TwoDependencies == { <<t, u>> : t \in TaskIds, u \in TaskIds }

\* task tables with and without cycles, reachable or not from the root
AnyTables ==
    { tb \in [TaskIds -> OneDependency \cup TwoDependencies] :
        \A t \in TaskIds \ {"A"} : tb[t] \in OneDependency }

SchedInitAny ==
    /\ tasks \in AnyTables
    /\ root_task \in TaskIds
    /\ processing_stack = <<root_task>>
    /\ result_stack = <<>>
    /\ order = <<>>
    /\ steps = <<>>
    /\ spc = "traverse"
    /\ BuildIdle
    /\ FoldIdle
    /\ NameIdle

\* one iteration of the while loop, followed while the record is short
SchedPopBounded ==
    /\ Len(result_stack) < MaxRecord
    /\ SchedPop

SchedNextBounded == SchedPopBounded \/ SchedUnique \/ SchedExecute \/ SchedReturn

\* the function is sequential code: it takes its next step whenever it has one
SpecSchedAny ==
    SchedInitAny /\ [][SchedNextBounded]_vars /\ WF_vars(SchedNextBounded)

\* no task reachable from the root is among its own transitive dependencies
AcyclicFromRoot == \A t \in Reachable(root_task) : t \notin TransitiveDeps(t)

\* C17: execute_task_and_its_dependencies returns for every table whose
\* dependency relation is acyclic on the tasks reachable from the root; with
\* a cycle reachable from the root it never leaves its while loop and
\* executes no task.
C17_TerminatesIffAcyclic ==
    /\ AcyclicFromRoot => <>(spc = "done")
    /\ (~AcyclicFromRoot) => [](spc = "traverse" /\ steps = <<>>)

\* a run on a table with a cycle reachable from the root, followed to the
\* longest record, still in its while loop with work left
C17_Witness ==
    /\ ~AcyclicFromRoot
    /\ spc = "traverse"
    /\ Len(result_stack) = MaxRecord
    /\ processing_stack # <<>>

\* a sequence back to front
Reverse(s) == [i \in DOMAIN s |-> s[Len(s) + 1 - i]]

\* the ids in the order the two-stack policy records them: a task, then what
\* its dependencies record, the last declared dependency first
RECURSIVE Recorded(_)
RECURSIVE RecordedOfAll(_)
Recorded(t) == <<t>> \o RecordedOfAll(Reverse(tasks[t]))

RecordedOfAll(ts) ==
    IF ts = <<>> THEN <<>> ELSE Recorded(Head(ts)) \o RecordedOfAll(Tail(ts))

\* the positions of a sequence that hold the first occurrence of their id
FirstPositions(s) == { i \in DOMAIN s : \A j \in 1..(i - 1) : s[j] # s[i] }

\* a scan of s from its head that keeps the first occurrence of each id
RECURSIVE ScanFrom(_, _)
ScanFrom(s, i) ==
    IF i > Len(s) THEN <<>>
    ELSE (IF i \in FirstPositions(s) THEN <<s[i]>> ELSE <<>>) \o ScanFrom(s, i + 1)

\* the table A->[B,C], B->[C], C->[D], D->[]
DiamondTable ==
    /\ tasks["A"] = <<"B", "C">>
    /\ tasks["B"] = <<"C">>
    /\ tasks["C"] = <<"D">>
    /\ tasks["D"] = <<>>

\* C12: for an acyclic table and any root, the record is the one the
\* two-stack policy writes (a task, then its dependencies, pushed in declared
\* order and so popped last declared first), and the tasks are executed in
\* the order of a scan of the record from its most recently written end that
\* keeps the first occurrence of each id; for A->[B,C], B->[C], C->[D], D->[]
\* and root A the order is D, C, B, A.
C12_TwoStackOrder ==
    (spc = "done" /\ Acyclic) =>
        /\ Reverse(result_stack) = Recorded(root_task)
        /\ steps = ScanFrom(result_stack, 1)
        /\ (DiamondTable /\ root_task = "A") => steps = <<"D", "C", "B", "A">>

\* the finished run of the table of the claim: six ids recorded, four executed
C12_Witness ==
    /\ spc = "done"
    /\ DiamondTable
    /\ root_task = "A"
    /\ Len(result_stack) = 6
    /\ steps = <<"D", "C", "B", "A">>


(***************************************************************************)
(* Part II: project resolution, build cache and build orchestration        *)
(* (src/project.rs, src/task/build.rs, src/task/run.rs, src/main.rs)       *)
(***************************************************************************)

\* the runs of the tool in one behaviour
MaxRuns == 3

\* the changes made to the project directories between runs in one behaviour
MaxEdits == 1

\* the object files deleted between runs in one behaviour
MaxRemovals == 1

BUILD_CONFIGURATION_FILE == "bakery.toml"

\* the project directories of the bounded file system
Dirs == {"app", "liba", "libb"}

\* what a source file may hold: two revisions that compile and link, one
\* that the compiler rejects, one that compiles and fails to link
Contents == {"rev0", "rev1", "syntax_error", "undefined_symbol"}

Distributions == {"Executable", "StaticLibrary", "DynamicLibrary"}

\* a name is the list of its characters
\* config::Dependency of a parsed bakery.toml
Local(path) == [kind |-> "Local", path |-> path]
System(name) == [kind |-> "System", name |-> name]

\* the parsed bakery.toml of the three directories, but for the distribution:
\* app depends on a system library and on liba, liba on libb
Chain ==
    [d \in Dirs |->
        CASE d = "app"  -> [name |-> <<"a", "p", "p">>, language |-> "Cpp",
                            sources |-> <<"src/*.cpp">>,
                            includes |-> <<"include">>,
                            dependencies |-> <<System("m"), Local("liba")>>]
          [] d = "liba" -> [name |-> <<"l", "i", "b", "a">>, language |-> "C",
                            sources |-> <<"a.c">>,
                            includes |-> <<"inc", "inc">>,
                            dependencies |-> <<Local("libb")>>]
          [] d = "libb" -> [name |-> <<"l", "i", "b", "b">>, language |-> "C",
                            sources |-> <<"b.c", "*.c">>,
                            includes |-> <<"include">>,
                            dependencies |-> <<>>]]

\* the distribution kinds the three bakery.toml declare before the first run
DistributionChoices ==
    { [d \in Dirs |-> CASE d = "app" -> "Executable" [] d = "liba" -> "StaticLibrary"
                         [] d = "libb" -> "DynamicLibrary"],
      [d \in Dirs |-> CASE d = "app" -> "DynamicLibrary" [] d = "liba" -> "DynamicLibrary"
                         [] d = "libb" -> "StaticLibrary"],
      [d \in Dirs |-> CASE d = "app" -> "Executable" [] d = "liba" -> "Executable"
                         [] d = "libb" -> "StaticLibrary"] }

\* the directories the tool is run in
RootDirs == {"app", "libb"}

\* config::ToolchainConfiguration: which tool locations are set; at most one
\* is missing in the bounded configurations
ToolchainConfigurations ==
    { tc \in [{"gcc_location", "gpp_location", "ar_location"} -> BOOLEAN] :
        Cardinality({ k \in DOMAIN tc : ~tc[k] }) <= 1 }


(***************************************************************************)
(* Content hashing and the persisted form of a digest                      *)
(***************************************************************************)

\* blake3::hash over the bytes of a file (collision-free on the bounded contents)
Blake3(bytes) == <<"blake3", bytes>>

\* Hash::to_string: the hex form written to hashes.json
HashToString(hash) == <<"hex", hash[2]>>

\* Hash::from_hex
HashFromHex(hex) == <<"blake3", hex[2]>>

\* the bytes of a directory's bakery.toml, as far as they vary: what it
\* declares and the revision of its text
ConfBytes(d) == <<conf[d].distribution, conf_rev[d]>>

\* file_name().with_extension("o") of a source path: the text after the last
\* '/', its extension replaced
ObjectFileName(source) ==
    CASE source = "src/main.cpp" -> "main.o"
      [] source = "src/util.cpp" -> "util.o"
      [] source = "a.c" -> "a.o"
      [] source = "b.c" -> "b.o"

DYNAMIC_LIBRARY_EXTENSION == "so"
STATIC_LIBRARY_EXTENSION == "a"
EXECUTABLE_EXTENSION == ""

\* the file name of the artifact of a project: <name>.<extension>
ArtifactName(name, distribution) ==
    <<name, CASE distribution = "Executable" -> EXECUTABLE_EXTENSION
              [] distribution = "DynamicLibrary" -> DYNAMIC_LIBRARY_EXTENSION
              [] distribution = "StaticLibrary" -> STATIC_LIBRARY_EXTENSION>>


(***************************************************************************)
(* Project::open (src/project.rs)                                          *)
(***************************************************************************)

EmptyMap == [k \in {} |-> <<"blake3", "rev0">>]

\* the characters of the bounded names that the class [a-zA-Z] holds
Letters == {"a", "b", "i", "l", "p", "Z"}

\* the characters of the bounded names that the class [a-zA-Z0-9] holds
LettersAndDigits == Letters \cup {"7"}

\* NAME_REGEX, lines 55-57: "[a-zA-Z][a-zA-Z0-9]+" matches the text from
\* position i on: a character of the first class, then one or more of the
\* second (one is enough for a match to be there)
NameRegexMatchesAt(text, i) ==
    /\ i + 1 <= Len(text)
    /\ text[i] \in Letters
    /\ text[i + 1] \in LettersAndDigits

\* Regex::is_match: the pattern has no anchor, so a match may start at any
\* position of the text and end before its end
NameRegexIsMatch(text) == \E i \in DOMAIN text : NameRegexMatchesAt(text, i)

\* lines 130-138: hashes.json parsed into path -> Hash; a missing file gives
\* the empty map
LoadHashes(d) ==
    IF cache[d].exists
    THEN [k \in DOMAIN cache[d].map |-> HashFromHex(cache[d].map[k])]
    ELSE EmptyMap

\* a plausible slip: a missing record counts as a changed configuration and
\* an equal digest as a changed one
HasConfigurationChangedInverted(hashes, build_configuration_hash) ==
    IF BUILD_CONFIGURATION_FILE \in DOMAIN hashes
    THEN hashes[BUILD_CONFIGURATION_FILE] = build_configuration_hash
    ELSE TRUE

\* lines 140-143: hashes.get(BUILD_CONFIGURATION_FILE).map(|hash| *hash !=
\* build_configuration_hash).unwrap_or_default()
HasConfigurationChanged(hashes, build_configuration_hash) ==
    IF BUILD_CONFIGURATION_FILE \in DOMAIN hashes
    THEN hashes[BUILD_CONFIGURATION_FILE] # build_configuration_hash
    ELSE FALSE

\* base_path.join(path)
Join(base_path, path) == <<base_path, path>>

\* the directories of the bounded file system that an include may name
IncludeDirectories ==
    {Join("app", "include"), Join("liba", "inc"), Join("libb", "include")}

\* concatenation of the lists of a list, as flat_map gives
RECURSIVE Flatten(_)
Flatten(lists) == IF lists = <<>> THEN <<>> ELSE Head(lists) \o Flatten(Tail(lists))

\* a plausible slip: an include path that is already in the list is not
\* added again
IncludesDeduplicated(base_path, declared, dependencies) ==
    LET IsProject(dependency) == dependency.kind = "Project"
        projects == SelectSeq(dependencies, IsProject)
    IN Unique([i \in DOMAIN declared |-> Join(base_path, declared[i])]
              \o Flatten([i \in DOMAIN projects |-> projects[i].project.includes]))

\* lines 202-216: the declared includes joined to the base path, chained
\* with the includes of every Project dependency, in dependency order
Includes(base_path, declared, dependencies) ==
    LET IsProject(dependency) == dependency.kind = "Project"
        projects == SelectSeq(dependencies, IsProject)
    IN [i \in DOMAIN declared |-> Join(base_path, declared[i])]
       \o Flatten([i \in DOMAIN projects |-> projects[i].project.includes])

\* lines 217-228: every path of the list exists and is a directory
\* (relative, and no symlink)
IncorrectIncludes(includes) ==
    LET Incorrect(include) == include \notin IncludeDirectories
    IN SelectSeq(includes, Incorrect)

\* the paths a source file may have below its project, in the alphabetical
\* order in which glob yields its matches
SourcePaths == <<"a.c", "b.c", "src/main.cpp", "src/util.cpp">>

\* glob's matching on the patterns and paths of the bounded file system: a
\* star stands for any characters of one path component, every other
\* character for itself
PatternMatches(pattern, path) ==
    CASE pattern = "*.c" -> path \in {"a.c", "b.c"}
      [] pattern = "src/*.cpp" -> path \in {"src/main.cpp", "src/util.cpp"}
      [] pattern = "*.cpp" -> FALSE
      [] OTHER -> pattern = path

\* lines 161-171: the files below base_path that the pattern matches, made
\* relative to base_path
Glob(base_path, pattern) ==
    LET Matched(path) == /\ <<base_path, path>> \in DOMAIN src
                         /\ PatternMatches(pattern, path)
    IN SelectSeq(SourcePaths, Matched)

\* a plausible slip: a file that an earlier pattern has matched is not
\* added again
SourcesDeduplicated(base_path, declared) ==
    Unique(Flatten([i \in DOMAIN declared |-> Glob(base_path, declared[i])]))

\* lines 156-188: every declared pattern is expanded on its own and the
\* matches are concatenated in the order of the declarations
Sources(base_path, declared) ==
    Flatten([i \in DOMAIN declared |-> Glob(base_path, declared[i])])

\* lines 189-200: every match exists and is a file (relative, and no symlink)
IncorrectSources(base_path, sources) ==
    LET Incorrect(source) == <<base_path, source>> \notin DOMAIN src
    IN SelectSeq(sources, Incorrect)

\* the first Err of a sequence of Results, as collect::<Result<Vec<_>, _>>() gives
RECURSIVE FirstErr(_)
FirstErr(rs) ==
    IF rs = <<>> THEN [e |-> "none"]
    ELSE IF ~Head(rs).ok THEN Head(rs).err
         ELSE FirstErr(Tail(rs))

\* what Project::open touches, in the order it does: the configuration file
\* it reads, the patterns it expands and the includes it validates
Evaluation(op, dir, what) == [op |-> op, dir |-> dir, what |-> what]

\* the first index of a list of Results that holds an Err, or its length
FirstErrIndex(rs) ==
    IF \E i \in DOMAIN rs : ~rs[i].ok
    THEN CHOOSE i \in DOMAIN rs : ~rs[i].ok /\ \A j \in 1..(i - 1) : rs[j].ok
    ELSE Len(rs)

\* a plausible slip: a Local dependency that cannot be opened is left out
\* of the dependencies and the open goes on
RECURSIVE OpenSkippingFailedDependencies(_)
OpenSkippingFailedDependencies(d) ==
    IF d \notin DOMAIN conf
    THEN [ok |-> FALSE, err |-> [e |-> "InvalidProjectPath"]]
    ELSE
    LET build_configuration_hash == Blake3(ConfBytes(d))
        valid_name == NameRegexIsMatch(conf[d].name)
        hashes == LoadHashes(d)
        all == [i \in DOMAIN conf[d].dependencies |->
                      LET dependency == conf[d].dependencies[i]
                      IN IF dependency.kind = "System"
                         THEN [ok |-> TRUE,
                               dep |-> [kind |-> "System", name |-> dependency.name]]
                         ELSE LET sub == OpenSkippingFailedDependencies(dependency.path)
                              IN IF sub.ok
                                 THEN [ok |-> TRUE,
                                       dep |-> [kind |-> "Project",
                                                project |-> sub.project]]
                                 ELSE [ok |-> FALSE, err |-> sub.err]]
        IsOk(result) == result.ok
        opened == SelectSeq(all, IsOk)
        sources == Sources(d, conf[d].sources)
        includes == Includes(d, conf[d].includes,
                             [i \in DOMAIN opened |-> opened[i].dep])
    IN IF ~valid_name
       THEN [ok |-> FALSE, err |-> [e |-> "InvalidName"]]
       ELSE IF IncorrectSources(d, sources) # <<>>
       THEN [ok |-> FALSE, err |-> [e |-> "IncorrectSource",
                                    source |-> Head(IncorrectSources(d, sources))]]
       ELSE IF IncorrectIncludes(includes) # <<>>
       THEN [ok |-> FALSE, err |-> [e |-> "IncorrectInclude",
                                    include |-> Head(IncorrectIncludes(includes))]]
       ELSE [ok |-> TRUE,
             project |->
                [base_path |-> d,
                 name |-> conf[d].name,
                 language |-> conf[d].language,
                 distribution |-> conf[d].distribution,
                 sources |-> sources,
                 includes |-> includes,
                 dependencies |-> [i \in DOMAIN opened |-> opened[i].dep],
                 has_project_configuration_changed |->
                     HasConfigurationChanged(hashes, build_configuration_hash),
                 hashes |-> hashes]]

\* Project::open, lines 87-250: Ok(Project) or Err(ProjectOpenError). A
\* configuration file that is not there
\* gives InvalidProjectPath (lines 92-95). A Local dependency is opened by
\* the recursive call of line 151, a System dependency is recorded as it
\* is; the first dependency that fails ends the open with its error (line
\* 154) and no later dependency is opened; no check is made of the
\* distribution of an opened dependency.
RECURSIVE Open(_)
Open(d) ==
    IF d \notin DOMAIN conf
    THEN [ok |-> FALSE, err |-> [e |-> "InvalidProjectPath"]]
    ELSE
    LET build_configuration_hash == Blake3(ConfBytes(d))
        valid_name == NameRegexIsMatch(conf[d].name)
        hashes == LoadHashes(d)
        opened == [i \in DOMAIN conf[d].dependencies |->
                      LET dependency == conf[d].dependencies[i]
                      IN IF dependency.kind = "System"
                         THEN [ok |-> TRUE,
                               dep |-> [kind |-> "System", name |-> dependency.name]]
                         ELSE LET sub == Open(dependency.path)
                              IN IF sub.ok
                                 THEN [ok |-> TRUE,
                                       dep |-> [kind |-> "Project",
                                                project |-> sub.project]]
                                 ELSE [ok |-> FALSE, err |-> sub.err]]
        sources == Sources(d, conf[d].sources)
        includes == Includes(d, conf[d].includes,
                             [i \in DOMAIN opened |-> opened[i].dep])
    IN IF ~valid_name
       THEN [ok |-> FALSE, err |-> [e |-> "InvalidName"]]
       ELSE IF \E i \in DOMAIN opened : ~opened[i].ok
       THEN [ok |-> FALSE, err |-> FirstErr(opened)]
       ELSE IF IncorrectSources(d, sources) # <<>>
       THEN [ok |-> FALSE, err |-> [e |-> "IncorrectSource",
                                    source |-> Head(IncorrectSources(d, sources))]]
       ELSE IF IncorrectIncludes(includes) # <<>>
       THEN [ok |-> FALSE, err |-> [e |-> "IncorrectInclude",
                                    include |-> Head(IncorrectIncludes(includes))]]
       ELSE [ok |-> TRUE,
             project |->
                [base_path |-> d,
                 name |-> conf[d].name,
                 language |-> conf[d].language,
                 distribution |-> conf[d].distribution,
                 sources |-> sources,
                 includes |-> includes,
                 dependencies |-> [i \in DOMAIN opened |-> opened[i].dep],
                 has_project_configuration_changed |->
                     HasConfigurationChanged(hashes, build_configuration_hash),
                 hashes |-> hashes]]

\* the evaluations Project::open makes, in the order it makes them: the
\* configuration file is read (line 92) and the name checked; the Local
\* dependencies are opened in declared order up to the first that fails
\* (lines 146-154); then the patterns are expanded (lines 156-190) and the
\* includes validated up to the first that is not a directory (lines 192-230)
RECURSIVE Evaluations(_)
Evaluations(d) ==
    LET read == <<Evaluation("read", d, BUILD_CONFIGURATION_FILE)>>
    IN IF d \notin DOMAIN conf THEN read
       ELSE IF ~NameRegexIsMatch(conf[d].name) THEN read
       ELSE
       LET declared == conf[d].dependencies
           opened == [i \in DOMAIN declared |->
                         IF declared[i].kind = "System"
                         THEN [ok |-> TRUE,
                               dep |-> [kind |-> "System", name |-> declared[i].name]]
                         ELSE LET sub == Open(declared[i].path)
                              IN IF sub.ok
                                 THEN [ok |-> TRUE,
                                       dep |-> [kind |-> "Project",
                                                project |-> sub.project]]
                                 ELSE [ok |-> FALSE, err |-> sub.err]]
           resolved ==
               read \o Flatten([i \in 1..FirstErrIndex(opened) |->
                                   IF declared[i].kind = "System" THEN <<>>
                                   ELSE Evaluations(declared[i].path)])
           globbed == resolved \o [i \in DOMAIN conf[d].sources |->
                                      Evaluation("glob", d, conf[d].sources[i])]
           includes == Includes(d, conf[d].includes,
                                [i \in DOMAIN opened |-> opened[i].dep])
           checked == IF IncorrectIncludes(includes) = <<>>
                      THEN Len(includes)
                      ELSE CHOOSE k \in DOMAIN includes :
                             /\ includes[k] \notin IncludeDirectories
                             /\ \A j \in 1..(k - 1) :
                                    includes[j] \in IncludeDirectories
           validated == globbed \o [i \in 1..checked |->
                                       Evaluation("include", d, includes[i])]
       IN IF \E i \in DOMAIN opened : ~opened[i].ok THEN resolved
          ELSE IF IncorrectSources(d, Sources(d, conf[d].sources)) # <<>>
          THEN globbed
          ELSE validated

\* the Project at a position of the opened tree: the position is the list of
\* the indices of the dependencies walked from the root
RECURSIVE ProjectAt(_, _)
ProjectAt(project, at) ==
    IF at = <<>> THEN project
    ELSE ProjectAt(project.dependencies[Head(at)].project, Tail(at))

\* the positions of all the projects of a tree
RECURSIVE Positions(_)
Positions(project) ==
    {<<>>} \cup UNION { { <<i>> \o at : at \in Positions(project.dependencies[i].project) } :
                         i \in { j \in DOMAIN project.dependencies :
                                   project.dependencies[j].kind = "Project" } }

(***************************************************************************)
(* The stale set                                                           *)
(***************************************************************************)

\* a plausible slip: the missing object file is not looked at
IsStaleIgnoringObject(project, source) ==
    IF source \in DOMAIN project.hashes
    THEN project.hashes[source] # Blake3(src[<<project.base_path, source>>])
    ELSE TRUE

\* the filter closure of Build::collect_sources_to_compile, lines 123-150
\* (Project::get_sources_to_compile, lines 664-689): no cached hash, or the
\* object file is missing, or the source file opens and hashes differently
IsStale(project, source) ==
    IF source \in DOMAIN project.hashes
    THEN LET object_file_exists ==
                 <<project.base_path, ObjectFileName(source)>> \in objs
             source_file_changed ==
                 IF <<project.base_path, source>> \in DOMAIN src
                 THEN project.hashes[source] # Blake3(src[<<project.base_path, source>>])
                 ELSE FALSE
         IN (~object_file_exists) \/ source_file_changed
    ELSE TRUE

\* a plausible slip: a changed configuration is not looked at
CollectIgnoringConfiguration(project) ==
    LET Keep(source) == IsStale(project, source)
    IN SelectSeq(project.sources, Keep)

\* Build::collect_sources_to_compile, lines 115-153
\* (Project::get_sources_to_compile, lines 658-692)
CollectSourcesToCompile(project) ==
    IF project.has_project_configuration_changed
    THEN project.sources
    ELSE LET Keep(source) == IsStale(project, source)
         IN SelectSeq(project.sources, Keep)


(***************************************************************************)
(* Calls, results and events                                               *)
(***************************************************************************)

NoError == [e |-> "none"]

\* Result<(), E> of a returned call, with the function that returned it and
\* the position of the project it worked on
Ok(fn, at) == [ok |-> TRUE, err |-> NoError, from |-> fn, at |-> at]
Err(fn, at, e) == [ok |-> FALSE, err |-> e, from |-> fn, at |-> at]

\* an activation of a function of the build: the project it works on, the
\* point it is at, and its locals
Frame(fn, at, pc, i, sources, cfg_hash) ==
    [fn |-> fn, at |-> at, pc |-> pc, i |-> i, sources |-> sources,
     cfg_hash |-> cfg_hash]

NewFrame(fn, at) == Frame(fn, at, "start", 1, <<>>, Blake3("unset"))

Top == stack[Len(stack)]
Rest == SubSeq(stack, 1, Len(stack) - 1)
Running(fn, pc) ==
    /\ phase = "running"
    /\ stack # <<>>
    /\ Top.fn = fn
    /\ Top.pc = pc

\* the project the running call works on
Current == ProjectAt(ctx, Top.at)

\* something the run did to the outside: a tool invocation, a file-system
\* write or a process launch
Event(ev, at, dir, what) == [ev |-> ev, at |-> at, dir |-> dir, what |-> what]

\* Build::create_directories, lines 256-261 (Project::create_directories)
CreateDirectoriesEvent(at, project) == Event("mkdir", at, project.base_path, ".bakery")

\* a plausible slip: the archiver is not asked for before the build starts
MissingToolButArchiver ==
    IF ~toolchain["gcc_location"] THEN "CCompiler"
    ELSE IF ~toolchain["gpp_location"] THEN "CppCompiler"
    ELSE "none"

\* the first missing tool, in the order the code asks for them
MissingTool ==
    IF ~toolchain["gcc_location"] THEN "CCompiler"
    ELSE IF ~toolchain["gpp_location"] THEN "CppCompiler"
    ELSE IF ~toolchain["ar_location"] THEN "Archiver"
    ELSE "none"


(***************************************************************************)
(* The state before the first run, and the changes made between runs       *)
(***************************************************************************)

\* the source files of the bounded file system: <<directory, path>>
SourceFiles ==
    {<<"app", "src/main.cpp">>, <<"app", "src/util.cpp">>,
     <<"liba", "a.c">>, <<"libb", "b.c">>}

Init ==
    /\ \E dist \in DistributionChoices :
           conf = [d \in Dirs |->
                      [name |-> Chain[d].name,
                       language |-> Chain[d].language,
                       distribution |-> dist[d],
                       sources |-> Chain[d].sources,
                       includes |-> Chain[d].includes,
                       dependencies |-> Chain[d].dependencies]]
    /\ conf_rev = [d \in Dirs |-> 0]
    /\ src = [f \in SourceFiles |-> "rev0"]
    /\ objs = {}
    /\ cache = [d \in Dirs |-> [exists |-> FALSE, map |-> EmptyMap]]
    /\ arts = {}
    /\ bakery_dirs = {}
    /\ toolchain \in ToolchainConfigurations
    /\ cwd \in RootDirs
    /\ entry \in {"task", "method"}
    /\ cmd \in {"build", "run"}
    /\ phase = "idle"
    /\ ctx = [opened |-> FALSE]
    /\ todo = <<>>
    /\ stack = <<>>
    /\ ret = Ok("none", <<>>)
    /\ batch = <<>>
    /\ log = <<>>
    /\ diag = <<>>
    /\ runs = 0
    /\ edits = 0
    /\ quiet = FALSE
    /\ touched = FALSE
    /\ prev_diag = <<>>
    /\ edited = {}
    /\ removals = 0
    /\ SchedulerIdle
    /\ FoldIdle
    /\ NameIdle

BetweenRuns == phase \in {"idle", "done"} /\ edits < MaxEdits /\ runs < MaxRuns

\* the user rewrites a source file
EditSource ==
    /\ BetweenRuns
    /\ \E f \in SourceFiles : \E c \in Contents \ {src[f]} :
           src' = [src EXCEPT ![f] = c]
    /\ edits' = edits + 1
    /\ touched' = TRUE
    /\ edited' = edited \cup {"source"}
    /\ UNCHANGED <<conf, conf_rev, objs, cache, arts, bakery_dirs, toolchain, cwd,
                   runvars, runs, quiet, prev_diag, removals>>
    /\ UNCHANGED <<svars, pvars>>

\* the user rewrites a bakery.toml without changing what it declares
\* (whitespace, a comment)
EditConfiguration ==
    /\ BetweenRuns
    /\ \E d \in Dirs : conf_rev' = [conf_rev EXCEPT ![d] = 1 - conf_rev[d]]
    /\ edits' = edits + 1
    /\ touched' = TRUE
    /\ edited' = edited \cup {"configuration"}
    /\ UNCHANGED <<conf, src, objs, cache, arts, bakery_dirs, toolchain, cwd,
                   runvars, runs, quiet, prev_diag, removals>>
    /\ UNCHANGED <<svars, pvars>>

\* the user changes the distribution declared by a bakery.toml
EditDistribution ==
    /\ BetweenRuns
    /\ \E d \in Dirs : \E dist \in Distributions \ {conf[d].distribution} :
           conf' = [conf EXCEPT ![d].distribution = dist]
    /\ edits' = edits + 1
    /\ touched' = TRUE
    /\ edited' = edited \cup {"distribution"}
    /\ UNCHANGED <<conf_rev, src, objs, cache, arts, bakery_dirs, toolchain, cwd,
                   runvars, runs, quiet, prev_diag, removals>>
    /\ UNCHANGED <<svars, pvars>>

\* the user deletes an object file from a build directory
RemoveObject ==
    /\ BetweenRuns
    /\ \E o \in objs : objs' = objs \ {o}
    /\ edits' = edits + 1
    /\ touched' = TRUE
    /\ edited' = edited \cup {"object"}
    /\ UNCHANGED <<conf, conf_rev, src, cache, arts, bakery_dirs, toolchain, cwd,
                   runvars, runs, quiet, prev_diag, removals>>
    /\ UNCHANGED <<svars, pvars>>

(***************************************************************************)
(* main (src/main.rs) and the entry points of Project                      *)
(***************************************************************************)

\* the task table main builds, lines 32-35, with Build::dependencies
\* (task/build.rs 567-569) and Run::dependencies (task/run.rs 46-48)
RegisteredTasks == [t \in {"build", "run"} |-> IF t = "run" THEN <<"build">> ELSE <<>>]

\* the while loop of execute_task_and_its_dependencies run to its end
RECURSIVE Traverse(_, _, _)
Traverse(table, processing, result) ==
    IF processing = <<>> THEN result
    ELSE Traverse(table,
                  PushAllFront(Tail(processing), table[Head(processing)]),
                  PushFront(result, Head(processing)))

\* the order execute_task_and_its_dependencies calls on_execute in
ExecutionOrder(table, task_id) == Unique(Traverse(table, <<task_id>>, <<>>))

\* the tool is started: main opens the project of the current directory
\* (line 45) and hands the subcommand to the scheduler (line 54); or a caller
\* opens the project and calls Project::build or Project::run on it
StartRun ==
    /\ phase \in {"idle", "done"}
    /\ runs < MaxRuns
    /\ LET opened == Open(cwd)
           c == cmd
       IN  /\ IF ~opened.ok
              THEN /\ phase' = "done"
                   /\ diag' = <<opened.err>>
                   /\ UNCHANGED <<ctx, todo, stack>>
              ELSE /\ phase' = "running"
                   /\ diag' = <<>>
                   /\ ctx' = opened.project
                   /\ IF entry = "task"
                      THEN /\ todo' = ExecutionOrder(RegisteredTasks, c)
                           /\ stack' = <<>>
                      ELSE /\ todo' = <<>>
                           /\ stack' = <<NewFrame(IF c = "run" THEN "Project::run"
                                                  ELSE "Project::build", <<>>)>>
    /\ ret' = Ok("none", <<>>)
    /\ batch' = <<>>
    /\ log' = <<>>
    /\ runs' = runs + 1
    /\ quiet' = (runs > 0 /\ ~touched)
    /\ touched' = FALSE
    /\ prev_diag' = diag
    /\ UNCHANGED <<fsvars, entry, cmd, edits, edited, removals>>
    /\ UNCHANGED <<svars, pvars>>

\* the for loop of execute_task_and_its_dependencies, lines 108-110: the next
\* task's on_execute is called
TaskDispatch ==
    /\ phase = "running"
    /\ entry = "task"
    /\ stack = <<>>
    /\ todo # <<>>
    /\ stack' = <<NewFrame(IF Head(todo) = "build" THEN "Build::on_execute"
                           ELSE "Run::on_execute", <<>>)>>
    /\ todo' = Tail(todo)
    /\ UNCHANGED <<fsvars, histvars, entry, cmd, phase, ctx, ret, batch, log, diag>>
    /\ UNCHANGED <<svars, pvars>>

\* every task has run: main returns, line 87
MainReturn ==
    /\ phase = "running"
    /\ entry = "task"
    /\ stack = <<>>
    /\ todo = <<>>
    /\ phase' = "done"
    /\ UNCHANGED <<fsvars, histvars, entry, cmd, ctx, todo, stack, ret, batch, log, diag>>
    /\ UNCHANGED <<svars, pvars>>

\* Project::build or Project::run has returned to its caller
MethodReturn ==
    /\ phase = "running"
    /\ entry = "method"
    /\ stack = <<>>
    /\ phase' = "done"
    /\ diag' = (IF ret.ok THEN diag ELSE Append(diag, ret.err))
    /\ UNCHANGED <<fsvars, histvars, entry, cmd, ctx, todo, stack, ret, batch, log>>
    /\ UNCHANGED <<svars, pvars>>


(***************************************************************************)
(* The compile batch, the cache write and the link step: Build::build      *)
(* (src/task/build.rs 283-501) and Project::build_source_code              *)
(* (src/project.rs 360-572), which hold the same code                      *)
(***************************************************************************)

BatchFns == {"Build::build", "Project::build_source_code"}

Pending == [st |-> "pending"]

\* the compiler accepts the content of a source file
Compiles(content) == content # "syntax_error"

\* the linker resolves every symbol of an object compiled from the content
Links(content) == content # "undefined_symbol"

\* lines 293-308 of Build::build: the directories are created, the
\* configuration file is hashed, and the workers of the batch are forked
\* (Project::build_source_code, lines 367-376, creates no directory: its
\* caller has)
BuildBegin ==
    /\ phase = "running"
    /\ stack # <<>>
    /\ Top.fn \in BatchFns
    /\ Top.pc = "start"
    /\ LET project == Current
       IN /\ IF Top.fn = "Build::build"
             THEN /\ bakery_dirs' = bakery_dirs \cup {project.base_path}
                  /\ log' = Append(log, CreateDirectoriesEvent(Top.at, project))
             ELSE UNCHANGED <<bakery_dirs, log>>
          /\ stack' = Append(Rest, [Top EXCEPT !.pc = "batch",
                                               !.cfg_hash = Blake3(ConfBytes(project.base_path))])
          /\ batch' = [k \in DOMAIN Top.sources |-> Pending]
    /\ UNCHANGED <<conf, conf_rev, src, objs, cache, arts, toolchain, cwd, histvars,
                   entry, cmd, phase, ctx, todo, ret, diag>>
    /\ UNCHANGED <<svars, pvars>>

\* a plausible slip: a worker that has compiled and hashed its source puts
\* the digest into hashes.json itself
CompileSourceWritingCache ==
    /\ phase = "running"
    /\ stack # <<>>
    /\ Top.fn \in BatchFns
    /\ Top.pc = "batch"
    /\ \E k \in DOMAIN batch :
        /\ batch[k] = Pending
        /\ LET project == Current
               source == Top.sources[k]
               file == <<project.base_path, source>>
               old == IF cache[project.base_path].exists
                      THEN cache[project.base_path].map ELSE EmptyMap
           IN /\ log' = Append(log, Event("compile", Top.at, project.base_path, source))
              /\ IF Compiles(src[file])
                 THEN /\ objs' = objs \cup {<<project.base_path, ObjectFileName(source)>>}
                      /\ batch' = [batch EXCEPT ![k] =
                                      [st |-> "ok", source |-> source,
                                       hash |-> Blake3(src[file])]]
                      /\ cache' = [cache EXCEPT ![project.base_path] =
                                      [exists |-> TRUE,
                                       map |-> [key \in DOMAIN old \cup {source} |->
                                                   IF key = source
                                                   THEN HashToString(Blake3(src[file]))
                                                   ELSE old[key]]]]
                 ELSE /\ objs' = objs
                      /\ cache' = cache
                      /\ batch' = [batch EXCEPT ![k] =
                                      [st |-> "err",
                                       err |-> [e |-> "FailedToCompile", source |-> source]]]
    /\ UNCHANGED <<conf, conf_rev, src, arts, bakery_dirs, toolchain, cwd, histvars,
                   entry, cmd, phase, ctx, todo, stack, ret, diag>>
    /\ UNCHANGED <<svars, pvars>>

\* the fold closure, lines 358-384, run by a worker on one source of the
\* batch: the compiler is invoked; only if it succeeds the source is hashed
CompileSource ==
    /\ phase = "running"
    /\ stack # <<>>
    /\ Top.fn \in BatchFns
    /\ Top.pc = "batch"
    /\ \E k \in DOMAIN batch :
        /\ batch[k] = Pending
        /\ LET project == Current
               source == Top.sources[k]
               file == <<project.base_path, source>>
           IN /\ log' = Append(log, Event("compile", Top.at, project.base_path, source))
              /\ IF Compiles(src[file])
                 THEN /\ objs' = objs \cup {<<project.base_path, ObjectFileName(source)>>}
                      /\ batch' = [batch EXCEPT ![k] =
                                      [st |-> "ok", source |-> source,
                                       hash |-> Blake3(src[file])]]
                 ELSE /\ objs' = objs
                      /\ batch' = [batch EXCEPT ![k] =
                                      [st |-> "err",
                                       err |-> [e |-> "FailedToCompile", source |-> source]]]
    /\ UNCHANGED <<conf, conf_rev, src, cache, arts, bakery_dirs, toolchain, cwd, histvars,
                   entry, cmd, phase, ctx, todo, stack, ret, diag>>
    /\ UNCHANGED <<svars, pvars>>

\* the reduce, lines 386-394: the per-worker maps, extended in the order of
\* the sources (a later entry of a key replaces an earlier one)
ReducedHashes ==
    LET keys == { batch[k].source : k \in { j \in DOMAIN batch : batch[j].st = "ok" } }
        Last(key) == CHOOSE k \in DOMAIN batch :
                        /\ batch[k].st = "ok"
                        /\ batch[k].source = key
                        /\ \A j \in DOMAIN batch :
                              (batch[j].st = "ok" /\ batch[j].source = key) => j <= k
    IN [key \in keys |-> batch[Last(key)].hash]

\* the reduce, lines 386-394: the per-worker error lists, concatenated in
\* the order of the sources
RECURSIVE ReducedErrorsFrom(_)
ReducedErrorsFrom(k) ==
    IF k > Len(batch) THEN <<>>
    ELSE IF batch[k].st = "err" THEN <<batch[k].err>> \o ReducedErrorsFrom(k + 1)
         ELSE ReducedErrorsFrom(k + 1)

\* a plausible slip: only the first error of the batch is kept
ReducedErrorsFirstOnly ==
    IF ReducedErrorsFrom(1) = <<>> THEN <<>> ELSE <<Head(ReducedErrorsFrom(1))>>

ReducedErrors == ReducedErrorsFrom(1)

\* a plausible slip: the new digests are merged into the loaded snapshot
\* before they are written
HashesToSaveMerged(project, cfg_hash, hashes) ==
    [key \in DOMAIN project.hashes \cup {BUILD_CONFIGURATION_FILE} \cup DOMAIN hashes |->
        IF key \in DOMAIN hashes THEN hashes[key]
        ELSE IF key = BUILD_CONFIGURATION_FILE THEN cfg_hash
        ELSE project.hashes[key]]

\* current_hashes of lines 299-308 and 400: the configuration digest,
\* extended by the digests the batch collected
HashesToSave(project, cfg_hash, hashes) ==
    [key \in {BUILD_CONFIGURATION_FILE} \cup DOMAIN hashes |->
        IF key \in DOMAIN hashes THEN hashes[key] ELSE cfg_hash]

\* Build::serialize_hashes, lines 246-254: path -> hex string
SerializeHashes(hashes) == [key \in DOMAIN hashes |-> HashToString(hashes[key])]

\* a plausible slip: the results are reduced as soon as one worker has
\* finished, without waiting for the others
BuildJoinWithoutBarrier ==
    /\ phase = "running"
    /\ stack # <<>>
    /\ Top.fn \in BatchFns
    /\ Top.pc = "batch"
    /\ \/ batch = <<>>
       \/ \E k \in DOMAIN batch : batch[k] # Pending
    /\ LET project == Current
           errors == ReducedErrors
       IN IF errors # <<>>
          THEN /\ stack' = Rest
               /\ ret' = Err(Top.fn, Top.at, [e |-> "CompilationError", errors |-> errors])
               /\ UNCHANGED <<cache, log>>
          ELSE IF project.base_path \notin bakery_dirs
          THEN /\ stack' = Rest
               /\ ret' = Err(Top.fn, Top.at, [e |-> "FailedToSaveHashes"])
               /\ UNCHANGED <<cache, log>>
          ELSE /\ cache' = [cache EXCEPT ![project.base_path] =
                               [exists |-> TRUE,
                                map |-> SerializeHashes(
                                    HashesToSave(project, Top.cfg_hash, ReducedHashes))]]
               /\ log' = Append(log, Event("write_hashes", Top.at, project.base_path,
                                           "hashes.json"))
               /\ stack' = Append(Rest, [Top EXCEPT !.pc = "link"])
               /\ ret' = ret
    /\ batch' = <<>>
    /\ UNCHANGED <<conf, conf_rev, src, objs, arts, bakery_dirs, toolchain, cwd, histvars,
                   entry, cmd, phase, ctx, todo, diag>>
    /\ UNCHANGED <<svars, pvars>>

\* a plausible slip: hashes.json is rewritten before the error list is
\* looked at
BuildJoinSavingFirst ==
    /\ phase = "running"
    /\ stack # <<>>
    /\ Top.fn \in BatchFns
    /\ Top.pc = "batch"
    /\ \A k \in DOMAIN batch : batch[k] # Pending
    /\ LET project == Current
           errors == ReducedErrors
       IN /\ IF project.base_path \in bakery_dirs
             THEN /\ cache' = [cache EXCEPT ![project.base_path] =
                                  [exists |-> TRUE,
                                   map |-> SerializeHashes(
                                       HashesToSave(project, Top.cfg_hash, ReducedHashes))]]
                  /\ log' = Append(log, Event("write_hashes", Top.at, project.base_path,
                                              "hashes.json"))
             ELSE UNCHANGED <<cache, log>>
          /\ IF errors # <<>>
             THEN /\ stack' = Rest
                  /\ ret' = Err(Top.fn, Top.at, [e |-> "CompilationError", errors |-> errors])
             ELSE IF project.base_path \notin bakery_dirs
             THEN /\ stack' = Rest
                  /\ ret' = Err(Top.fn, Top.at, [e |-> "FailedToSaveHashes"])
             ELSE /\ stack' = Append(Rest, [Top EXCEPT !.pc = "link"])
                  /\ ret' = ret
    /\ batch' = <<>>
    /\ UNCHANGED <<conf, conf_rev, src, objs, arts, bakery_dirs, toolchain, cwd, histvars,
                   entry, cmd, phase, ctx, todo, diag>>
    /\ UNCHANGED <<svars, pvars>>

\* a plausible slip: once hashes.json is written the build returns to its
\* caller, and the artifact is not linked before the dependent is compiled
BuildJoinReturningBeforeLink ==
    /\ phase = "running"
    /\ stack # <<>>
    /\ Top.fn \in BatchFns
    /\ Top.pc = "batch"
    /\ \A k \in DOMAIN batch : batch[k] # Pending
    /\ LET project == Current
           errors == ReducedErrors
       IN IF errors # <<>>
          THEN /\ stack' = Rest
               /\ ret' = Err(Top.fn, Top.at, [e |-> "CompilationError", errors |-> errors])
               /\ UNCHANGED <<cache, log>>
          ELSE IF project.base_path \notin bakery_dirs
          THEN /\ stack' = Rest
               /\ ret' = Err(Top.fn, Top.at, [e |-> "FailedToSaveHashes"])
               /\ UNCHANGED <<cache, log>>
          ELSE /\ cache' = [cache EXCEPT ![project.base_path] =
                               [exists |-> TRUE,
                                map |-> SerializeHashes(
                                    HashesToSave(project, Top.cfg_hash, ReducedHashes))]]
               /\ log' = Append(log, Event("write_hashes", Top.at, project.base_path,
                                           "hashes.json"))
               /\ stack' = Rest
               /\ ret' = Ok(Top.fn, Top.at)
    /\ batch' = <<>>
    /\ UNCHANGED <<conf, conf_rev, src, objs, arts, bakery_dirs, toolchain, cwd, histvars,
                   entry, cmd, phase, ctx, todo, diag>>
    /\ UNCHANGED <<svars, pvars>>

\* the batch has joined, lines 396-405: a non-empty error list ends the build
\* with CompilationError; otherwise hashes.json is rewritten
BuildJoin ==
    /\ phase = "running"
    /\ stack # <<>>
    /\ Top.fn \in BatchFns
    /\ Top.pc = "batch"
    /\ \A k \in DOMAIN batch : batch[k] # Pending
    /\ LET project == Current
           errors == ReducedErrors
       IN IF errors # <<>>
          THEN /\ stack' = Rest
               /\ ret' = Err(Top.fn, Top.at, [e |-> "CompilationError", errors |-> errors])
               /\ UNCHANGED <<cache, log>>
          ELSE IF project.base_path \notin bakery_dirs
          THEN /\ stack' = Rest
               /\ ret' = Err(Top.fn, Top.at, [e |-> "FailedToSaveHashes"])
               /\ UNCHANGED <<cache, log>>
          ELSE /\ cache' = [cache EXCEPT ![project.base_path] =
                               [exists |-> TRUE,
                                map |-> SerializeHashes(
                                    HashesToSave(project, Top.cfg_hash, ReducedHashes))]]
               /\ log' = Append(log, Event("write_hashes", Top.at, project.base_path,
                                           "hashes.json"))
               /\ stack' = Append(Rest, [Top EXCEPT !.pc = "link"])
               /\ ret' = ret
    /\ batch' = <<>>
    /\ UNCHANGED <<conf, conf_rev, src, objs, arts, bakery_dirs, toolchain, cwd, histvars,
                   entry, cmd, phase, ctx, todo, diag>>
    /\ UNCHANGED <<svars, pvars>>

\* Build::collect_project_dependencies, lines 155-164
CollectProjectDependencies(project) ==
    LET IsProject(dependency) == dependency.kind = "Project"
    IN SelectSeq(project.dependencies, IsProject)

\* Build::collect_object_files, lines 192-223: one object path per source,
\* then the archive of every direct StaticLibrary dependency
\* a plausible slip: the archive of every Project dependency is handed on,
\* whatever its distribution
CollectObjectFilesOfAllDependencies(project) ==
    LET project_dependencies == CollectProjectDependencies(project)
    IN [i \in DOMAIN project.sources |->
           [kind |-> "object",
            file |-> <<project.base_path, ObjectFileName(project.sources[i])>>]]
       \o [i \in DOMAIN project_dependencies |->
           [kind |-> "archive",
            file |-> <<project_dependencies[i].project.base_path,
                       ArtifactName(project_dependencies[i].project.name,
                                    "StaticLibrary")>>]]

CollectObjectFiles(project) ==
    LET project_dependencies == CollectProjectDependencies(project)
        IsStatic(dependency) == dependency.project.distribution = "StaticLibrary"
        static == SelectSeq(project_dependencies, IsStatic)
    IN [i \in DOMAIN project.sources |->
           [kind |-> "object",
            file |-> <<project.base_path, ObjectFileName(project.sources[i])>>]]
       \o [i \in DOMAIN static |->
           [kind |-> "archive",
            file |-> <<static[i].project.base_path,
                       ArtifactName(static[i].project.name, "StaticLibrary")>>]]

\* the linker or the archiver finds every file of its input list
InputsExist(object_files) ==
    \A i \in DOMAIN object_files :
        IF object_files[i].kind = "object" THEN object_files[i].file \in objs
        ELSE object_files[i].file \in arts

\* lines 407-500: the object list is assembled and the artifact is linked
\* (Executable, DynamicLibrary) or archived (StaticLibrary)
BuildLink ==
    /\ phase = "running"
    /\ stack # <<>>
    /\ Top.fn \in BatchFns
    /\ Top.pc = "link"
    /\ LET project == Current
           object_files == CollectObjectFiles(project)
           archive == project.distribution = "StaticLibrary"
           success ==
               /\ InputsExist(object_files)
               /\ (archive \/ (\A i \in DOMAIN project.sources :
                                 Links(src[<<project.base_path, project.sources[i]>>])))
       IN /\ log' = Append(log, Event(IF archive THEN "archive" ELSE "link", Top.at,
                                      project.base_path, object_files))
          /\ stack' = Rest
          /\ IF success
             THEN /\ arts' = arts \cup
                        {<<project.base_path,
                           ArtifactName(project.name, project.distribution)>>}
                  /\ ret' = Ok(Top.fn, Top.at)
             ELSE /\ arts' = arts
                  /\ ret' = Err(Top.fn, Top.at,
                                [e |-> IF archive THEN "ArchivalError" ELSE "LinkageError"])
    /\ UNCHANGED <<conf, conf_rev, src, objs, cache, bakery_dirs, toolchain, cwd, histvars,
                   entry, cmd, phase, ctx, todo, batch, diag>>
    /\ UNCHANGED <<svars, pvars>>


(***************************************************************************)
(* Artifact propagation                                                    *)
(***************************************************************************)

\* Build::collect_artifacts, lines 225-244 (Project::get_artifacts, lines
\* 711-729): the project's own artifact if it is a DynamicLibrary, then the
\* artifacts of its Project dependencies, recursively
RECURSIVE CollectArtifacts(_)
RECURSIVE CollectArtifactsOfDependencies(_)
CollectArtifacts(project) ==
    (IF project.distribution = "DynamicLibrary"
     THEN << <<project.base_path, ArtifactName(project.name, "DynamicLibrary")>> >>
     ELSE <<>>)
    \o CollectArtifactsOfDependencies(project.dependencies)

CollectArtifactsOfDependencies(dependencies) ==
    IF dependencies = <<>> THEN <<>>
    ELSE (IF Head(dependencies).kind = "Project"
          THEN CollectArtifacts(Head(dependencies).project)
          ELSE <<>>)
         \o CollectArtifactsOfDependencies(Tail(dependencies))

\* a plausible slip: the first entry is copied like the others
RECURSIVE CopiesFromWithoutSkip(_, _, _, _)
CopiesFromWithoutSkip(project, artifacts, index, files) ==
    IF index > Len(artifacts) THEN [ok |-> TRUE, copied |-> <<>>]
    ELSE IF artifacts[index] \notin files
    THEN [ok |-> FALSE, copied |-> <<>>]
    ELSE LET target == <<project.base_path, artifacts[index][2]>>
             after == CopiesFromWithoutSkip(project, artifacts, index + 1,
                                            files \cup {target})
         IN [ok |-> after.ok,
             copied |-> <<[from |-> artifacts[index], to |-> target]>> \o after.copied]

\* the loop of Build::copy_artifacts_to_build_directory, lines 543-559
\* (Project::copy_artifacts_to_build_directory, lines 694-709), from entry
\* index on: the files copied before the first fs::copy that fails
RECURSIVE CopiesFrom(_, _, _, _)
CopiesFrom(project, artifacts, index, files) ==
    IF index > Len(artifacts) THEN [ok |-> TRUE, copied |-> <<>>]
    ELSE IF index = 1 /\ project.distribution = "DynamicLibrary"
    THEN CopiesFrom(project, artifacts, index + 1, files)
    ELSE IF artifacts[index] \notin files
    THEN [ok |-> FALSE, copied |-> <<>>]
    ELSE LET target == <<project.base_path, artifacts[index][2]>>
             after == CopiesFrom(project, artifacts, index + 1, files \cup {target})
         IN [ok |-> after.ok,
             copied |-> <<[from |-> artifacts[index], to |-> target]>> \o after.copied]

CopyArtifactsToBuildDirectory(project) ==
    CopiesFrom(project, CollectArtifacts(project), 1, arts)

CopyEvents(at, project, copied) ==
    [i \in DOMAIN copied |-> Event("copy", at, project.base_path, copied[i])]

(***************************************************************************)
(* The build task (src/task/build.rs)                                      *)
(***************************************************************************)

\* Build::on_execute, lines 571-598: the tools are located and the stale set
\* of the root is collected
BuildOnExecute ==
    /\ Running("Build::on_execute", "start")
    /\ IF MissingTool # "none"
       THEN /\ diag' = Append(diag, [e |-> "ToolNotFound", tool |-> MissingTool])
            /\ stack' = Rest
       ELSE /\ diag' = diag
            /\ stack' = Append(Rest, [Top EXCEPT !.pc = "collected",
                                                 !.sources = CollectSourcesToCompile(ctx)])
    /\ ret' = Ok("none", <<>>)
    /\ UNCHANGED <<fsvars, histvars, entry, cmd, phase, ctx, todo, batch, log>>
    /\ UNCHANGED <<svars, pvars>>

\* Build::on_execute, lines 600-632: an empty stale set ends the task with
\* "Nothing to build"; otherwise the directories are created and the
\* dependencies, then the root, are built
BuildOnExecuteCollected ==
    /\ Running("Build::on_execute", "collected")
    /\ LET project == ctx
           sources == Top.sources
       IN IF sources = <<>>
          THEN /\ stack' = Rest
               /\ log' = Append(log, Event("println", <<>>, project.base_path,
                                           "Nothing to build"))
               /\ UNCHANGED bakery_dirs
          ELSE /\ bakery_dirs' = bakery_dirs \cup {project.base_path}
               /\ log' = Append(log, CreateDirectoriesEvent(<<>>, project))
               /\ IF project.dependencies # <<>>
                  THEN stack' = Rest \o
                         <<[Top EXCEPT !.pc = "after_deps"],
                           NewFrame("Build::build_dependencies", <<>>)>>
                  ELSE stack' = Rest \o
                         <<[Top EXCEPT !.pc = "after_build"],
                           [NewFrame("Build::build", <<>>) EXCEPT !.sources = sources]>>
    /\ ret' = Ok("none", <<>>)
    /\ UNCHANGED <<conf, conf_rev, src, objs, cache, arts, toolchain, cwd, histvars,
                   entry, cmd, phase, ctx, todo, batch, diag>>
    /\ UNCHANGED <<svars, pvars>>

\* Build::on_execute, lines 617-640: build_dependencies has returned
BuildOnExecuteAfterDependencies ==
    /\ Running("Build::on_execute", "after_deps")
    /\ IF ret.ok
       THEN /\ stack' = Rest \o
                  <<[Top EXCEPT !.pc = "after_build"],
                    [NewFrame("Build::build", <<>>) EXCEPT !.sources = Top.sources]>>
            /\ diag' = diag
       ELSE /\ stack' = Rest
            /\ diag' = Append(diag, [e |-> "Failed to build dependencies",
                                     inner |-> ret.err])
    /\ ret' = Ok("none", <<>>)
    /\ UNCHANGED <<fsvars, histvars, entry, cmd, phase, ctx, todo, batch, log>>
    /\ UNCHANGED <<svars, pvars>>

\* Build::on_execute, lines 634-647: build has returned; on success the
\* artifacts of the tree are copied into the root's build directory
BuildOnExecuteAfterBuild ==
    /\ Running("Build::on_execute", "after_build")
    /\ LET copy == CopyArtifactsToBuildDirectory(ctx)
       IN IF ret.ok
          THEN /\ arts' = arts \cup { copy.copied[i].to : i \in DOMAIN copy.copied }
               /\ log' = log \o CopyEvents(<<>>, ctx, copy.copied)
               /\ diag' = (IF copy.ok THEN diag
                           ELSE Append(diag, [e |-> "FailedToCopyArtifacts"]))
          ELSE /\ diag' = Append(diag, ret.err)
               /\ UNCHANGED <<arts, log>>
    /\ stack' = Rest
    /\ ret' = Ok("none", <<>>)
    /\ UNCHANGED <<conf, conf_rev, src, objs, cache, bakery_dirs, toolchain, cwd, histvars,
                   entry, cmd, phase, ctx, todo, batch>>
    /\ UNCHANGED <<svars, pvars>>

\* a plausible slip: the subproject is built before the function calls
\* itself on it, so a dependency is built before its own dependencies
BuildDependenciesLoopPreOrder ==
    /\ Running("Build::build_dependencies", "start")
    /\ LET project == Current
           at == Append(Top.at, Top.i)
       IN IF Top.i > Len(project.dependencies)
          THEN /\ stack' = Rest
               /\ ret' = Ok(Top.fn, Top.at)
          ELSE IF project.dependencies[Top.i].kind # "Project"
          THEN /\ stack' = Append(Rest, [Top EXCEPT !.i = Top.i + 1])
               /\ ret' = ret
          ELSE /\ stack' = Rest \o
                     <<[Top EXCEPT !.pc = "after_build"],
                       NewFrame("Build::build_dependencies", at),
                       [NewFrame("Build::build", at) EXCEPT
                           !.sources = CollectSourcesToCompile(ProjectAt(ctx, at))]>>
               /\ ret' = ret
    /\ UNCHANGED <<fsvars, histvars, entry, cmd, phase, ctx, todo, batch, log, diag>>
    /\ UNCHANGED <<svars, pvars>>

\* Build::build_dependencies, lines 270-280: the head of the for loop; a
\* System dependency is passed over, for a Project dependency the function
\* calls itself on the subproject (line 272)
BuildDependenciesLoop ==
    /\ Running("Build::build_dependencies", "start")
    /\ LET project == Current
       IN IF Top.i > Len(project.dependencies)
          THEN /\ stack' = Rest
               /\ ret' = Ok(Top.fn, Top.at)
          ELSE IF project.dependencies[Top.i].kind # "Project"
          THEN /\ stack' = Append(Rest, [Top EXCEPT !.i = Top.i + 1])
               /\ ret' = ret
          ELSE /\ stack' = Rest \o
                     <<[Top EXCEPT !.pc = "after_deps"],
                       NewFrame("Build::build_dependencies", Append(Top.at, Top.i))>>
               /\ ret' = ret
    /\ UNCHANGED <<fsvars, histvars, entry, cmd, phase, ctx, todo, batch, log, diag>>
    /\ UNCHANGED <<svars, pvars>>

\* Build::build_dependencies, lines 272-276: the subproject's dependencies
\* are built; its stale set is collected and it is built, whatever the set
BuildDependenciesBuild ==
    /\ Running("Build::build_dependencies", "after_deps")
    /\ LET at == Append(Top.at, Top.i)
           subproject == ProjectAt(ctx, at)
       IN IF ret.ok
          THEN /\ stack' = Rest \o
                     <<[Top EXCEPT !.pc = "after_build"],
                       [NewFrame("Build::build", at) EXCEPT
                           !.sources = CollectSourcesToCompile(subproject)]>>
               /\ ret' = ret
          ELSE /\ stack' = Rest
               /\ ret' = Err(Top.fn, Top.at, ret.err)
    /\ UNCHANGED <<fsvars, histvars, entry, cmd, phase, ctx, todo, batch, log, diag>>
    /\ UNCHANGED <<svars, pvars>>

\* Build::build_dependencies, line 276: build of the subproject has returned
BuildDependenciesNext ==
    /\ Running("Build::build_dependencies", "after_build")
    /\ IF ret.ok
       THEN /\ stack' = Append(Rest, [Top EXCEPT !.pc = "start", !.i = Top.i + 1])
            /\ ret' = ret
       ELSE /\ stack' = Rest
            /\ ret' = Err(Top.fn, Top.at, ret.err)
    /\ UNCHANGED <<fsvars, histvars, entry, cmd, phase, ctx, todo, batch, log, diag>>
    /\ UNCHANGED <<svars, pvars>>

(***************************************************************************)
(* The run task (src/task/run.rs)                                          *)
(***************************************************************************)

\* the file Command::new is given: <build directory>/<name> with the
\* executable extension
ExecutablePath(project) == <<project.base_path, ArtifactName(project.name, "Executable")>>

\* Run::on_execute, lines 30-50: a project that is not an executable is
\* reported, and the function goes on; the executable path is spawned
RunOnExecute ==
    /\ Running("Run::on_execute", "start")
    /\ LET project == ctx
           skipped == IF project.distribution # "Executable"
                      THEN <<[e |-> "Skipping run task because the project is not an executable"]>>
                      ELSE <<>>
           spawned == ExecutablePath(project) \in arts
       IN /\ diag' = diag \o skipped \o
                        (IF spawned THEN <<>> ELSE <<[e |-> "Failed to run the executable"]>>)
          /\ log' = (IF spawned
                     THEN Append(log, Event("launch", <<>>, project.base_path,
                                            ExecutablePath(project)))
                     ELSE log)
    /\ stack' = Rest
    /\ ret' = Ok("none", <<>>)
    /\ UNCHANGED <<fsvars, histvars, entry, cmd, phase, ctx, todo, batch>>
    /\ UNCHANGED <<svars, pvars>>


(***************************************************************************)
(* Project::build and Project::run (src/project.rs)                        *)
(***************************************************************************)

\* Project::build, lines 284-300: the tools are located, then the
\* dependencies are built; the entry of the method is put on the log
ProjectBuild ==
    /\ Running("Project::build", "start")
    /\ IF MissingTool # "none"
       THEN /\ stack' = Rest
            /\ ret' = Err(Top.fn, Top.at, [e |-> "ToolNotFound", tool |-> MissingTool])
       ELSE /\ stack' = Rest \o
                  <<[Top EXCEPT !.pc = "after_deps"],
                    NewFrame("Project::build_dependencies", Top.at)>>
            /\ ret' = ret
    /\ log' = Append(log, Event("call", Top.at, Current.base_path, "Project::build"))
    /\ UNCHANGED <<fsvars, histvars, entry, cmd, phase, ctx, todo, batch, diag>>
    /\ UNCHANGED <<svars, pvars>>

\* Project::build, lines 300-302: the dependencies are built; the stale set
\* is collected
ProjectBuildAfterDependencies ==
    /\ Running("Project::build", "after_deps")
    /\ IF ~ret.ok
       THEN /\ stack' = Rest
            /\ ret' = Err(Top.fn, Top.at, ret.err)
       ELSE /\ stack' = Append(Rest, [Top EXCEPT !.pc = "collected",
                                                 !.sources = CollectSourcesToCompile(Current)])
            /\ ret' = ret
    /\ UNCHANGED <<fsvars, histvars, entry, cmd, phase, ctx, todo, batch, log, diag>>
    /\ UNCHANGED <<svars, pvars>>

\* Project::build, lines 304-310: if the stale set is not empty the
\* directories are created and build_source_code is called
ProjectBuildCollected ==
    /\ Running("Project::build", "collected")
    /\ LET project == Current
           sources_to_compile == Top.sources
       IN IF sources_to_compile = <<>>
          THEN /\ stack' = Rest
               /\ ret' = Ok(Top.fn, Top.at)
               /\ UNCHANGED <<bakery_dirs, log>>
          ELSE /\ bakery_dirs' = bakery_dirs \cup {project.base_path}
               /\ log' = Append(log, CreateDirectoriesEvent(Top.at, project))
               /\ stack' = Rest \o
                     <<[Top EXCEPT !.pc = "after_code"],
                       [NewFrame("Project::build_source_code", Top.at) EXCEPT
                           !.sources = sources_to_compile]>>
               /\ ret' = ret
    /\ UNCHANGED <<conf, conf_rev, src, objs, cache, arts, toolchain, cwd, histvars,
                   entry, cmd, phase, ctx, todo, batch, diag>>
    /\ UNCHANGED <<svars, pvars>>

\* Project::build, lines 310-318: build_source_code has returned; on success
\* the artifacts of the subtree are copied into the build directory
ProjectBuildAfterSourceCode ==
    /\ Running("Project::build", "after_code")
    /\ LET project == Current
           copy == CopyArtifactsToBuildDirectory(project)
       IN IF ~ret.ok
          THEN /\ ret' = Err(Top.fn, Top.at, ret.err)
               /\ UNCHANGED <<arts, log>>
          ELSE /\ arts' = arts \cup { copy.copied[i].to : i \in DOMAIN copy.copied }
               /\ log' = log \o CopyEvents(Top.at, project, copy.copied)
               /\ ret' = (IF copy.ok THEN Ok(Top.fn, Top.at)
                          ELSE Err(Top.fn, Top.at, [e |-> "FailedToCopyArtifacts"]))
    /\ stack' = Rest
    /\ UNCHANGED <<conf, conf_rev, src, objs, cache, bakery_dirs, toolchain, cwd, histvars,
                   entry, cmd, phase, ctx, todo, batch, diag>>
    /\ UNCHANGED <<svars, pvars>>

\* Project::build_dependencies, lines 337-345: the head of the for loop over
\* the Project dependencies; an Executable dependency ends it with
\* DependencyMustBeLibrary, any other is built
ProjectBuildDependenciesLoop ==
    /\ Running("Project::build_dependencies", "start")
    /\ LET project == Current
       IN IF Top.i > Len(project.dependencies)
          THEN /\ stack' = Rest
               /\ ret' = Ok(Top.fn, Top.at)
          ELSE IF project.dependencies[Top.i].kind # "Project"
          THEN /\ stack' = Append(Rest, [Top EXCEPT !.i = Top.i + 1])
               /\ ret' = ret
          ELSE IF project.dependencies[Top.i].project.distribution = "Executable"
          THEN /\ stack' = Rest
               /\ ret' = Err(Top.fn, Top.at, [e |-> "DependencyMustBeLibrary"])
          ELSE /\ stack' = Rest \o
                     <<[Top EXCEPT !.pc = "after_build"],
                       NewFrame("Project::build", Append(Top.at, Top.i))>>
               /\ ret' = ret
    /\ UNCHANGED <<fsvars, histvars, entry, cmd, phase, ctx, todo, batch, log, diag>>
    /\ UNCHANGED <<svars, pvars>>

\* Project::build_dependencies, lines 342-344: the build of a dependency has
\* returned; its error is wrapped in FailedToBuildDependency
ProjectBuildDependenciesNext ==
    /\ Running("Project::build_dependencies", "after_build")
    /\ IF ret.ok
       THEN /\ stack' = Append(Rest, [Top EXCEPT !.pc = "start", !.i = Top.i + 1])
            /\ ret' = ret
       ELSE /\ stack' = Rest
            /\ ret' = Err(Top.fn, Top.at,
                          [e |-> "FailedToBuildDependency", inner |-> ret.err])
    /\ UNCHANGED <<fsvars, histvars, entry, cmd, phase, ctx, todo, batch, log, diag>>
    /\ UNCHANGED <<svars, pvars>>

\* Project::run, lines 256-261: a project that is not an executable is
\* refused; otherwise it is built
ProjectRun ==
    /\ Running("Project::run", "start")
    /\ IF Current.distribution # "Executable"
       THEN /\ stack' = Rest
            /\ ret' = Err(Top.fn, Top.at, [e |-> "CannotRunNonExecutable"])
       ELSE /\ stack' = Rest \o
                  <<[Top EXCEPT !.pc = "after_build"], NewFrame("Project::build", Top.at)>>
            /\ ret' = ret
    /\ UNCHANGED <<fsvars, histvars, entry, cmd, phase, ctx, todo, batch, log, diag>>
    /\ UNCHANGED <<svars, pvars>>

\* Project::run, lines 260-277: the build has returned; on success the
\* executable is spawned
ProjectRunAfterBuild ==
    /\ Running("Project::run", "after_build")
    /\ LET project == Current
           spawned == ExecutablePath(project) \in arts
       IN IF ~ret.ok
          THEN /\ ret' = Err(Top.fn, Top.at,
                             [e |-> "FailedToBuildProject", inner |-> ret.err])
               /\ log' = log
          ELSE IF ~spawned
          THEN /\ ret' = Err(Top.fn, Top.at, [e |-> "BuiltExecutableIsMissing"])
               /\ log' = log
          ELSE /\ ret' = Ok(Top.fn, Top.at)
               /\ log' = Append(log, Event("launch", Top.at, project.base_path,
                                           ExecutablePath(project)))
    /\ stack' = Rest
    /\ UNCHANGED <<fsvars, histvars, entry, cmd, phase, ctx, todo, batch, diag>>
    /\ UNCHANGED <<svars, pvars>>

(***************************************************************************)
(* The specification                                                       *)
(***************************************************************************)

Next ==
    \/ EditSource
    \/ EditConfiguration
    \/ EditDistribution
    \/ RemoveObject
    \/ StartRun
    \/ TaskDispatch
    \/ MainReturn
    \/ MethodReturn
    \/ BuildBegin
    \/ CompileSource
    \/ BuildJoin
    \/ BuildLink
    \/ BuildOnExecute
    \/ BuildOnExecuteCollected
    \/ BuildOnExecuteAfterDependencies
    \/ BuildOnExecuteAfterBuild
    \/ BuildDependenciesLoop
    \/ BuildDependenciesBuild
    \/ BuildDependenciesNext
    \/ RunOnExecute
    \/ ProjectBuild
    \/ ProjectBuildAfterDependencies
    \/ ProjectBuildCollected
    \/ ProjectBuildAfterSourceCode
    \/ ProjectBuildDependenciesLoop
    \/ ProjectBuildDependenciesNext
    \/ ProjectRun
    \/ ProjectRunAfterBuild

Spec == Init /\ [][Next]_vars

\* the build subcommand with a complete toolchain configuration: every tool
\* location is set, so every run gets as far as the project lets it
InitBuild ==
    /\ Init
    /\ cmd = "build"
    /\ \A k \in DOMAIN toolchain : toolchain[k]

\* what the build subcommand can do: everything but the steps of Run and
\* Project::run
NextBuild ==
    \/ EditSource
    \/ EditConfiguration
    \/ EditDistribution
    \/ RemoveObject
    \/ StartRun
    \/ TaskDispatch
    \/ MainReturn
    \/ MethodReturn
    \/ BuildBegin
    \/ CompileSource
    \/ BuildJoin
    \/ BuildLink
    \/ BuildOnExecute
    \/ BuildOnExecuteCollected
    \/ BuildOnExecuteAfterDependencies
    \/ BuildOnExecuteAfterBuild
    \/ BuildDependenciesLoop
    \/ BuildDependenciesBuild
    \/ BuildDependenciesNext
    \/ ProjectBuild
    \/ ProjectBuildAfterDependencies
    \/ ProjectBuildCollected
    \/ ProjectBuildAfterSourceCode
    \/ ProjectBuildDependenciesLoop
    \/ ProjectBuildDependenciesNext

SpecBuild == InitBuild /\ [][NextBuild]_vars

\* an object file of the build directory of the root goes away between two
\* runs (a partial clean), besides the changes the user makes to the project
CleanObject ==
    /\ phase \in {"idle", "done"}
    /\ runs < MaxRuns
    /\ removals < MaxRemovals
    /\ \E o \in objs : o[1] = cwd /\ objs' = objs \ {o}
    /\ removals' = removals + 1
    /\ touched' = TRUE
    /\ edited' = edited \cup {"object"}
    /\ UNCHANGED <<conf, conf_rev, src, cache, arts, bakery_dirs, toolchain, cwd,
                   runvars, runs, edits, quiet, prev_diag>>
    /\ UNCHANGED <<svars, pvars>>

\* the build subcommand on the three-project tree, every tool installed; the
\* stale test does not read the distribution, so one choice of the
\* distributions is kept: an executable on a static library
InitRetry ==
    /\ Init
    /\ cwd = "app"
    /\ cmd = "build"
    /\ conf["app"].distribution = "Executable"
    /\ conf["liba"].distribution = "StaticLibrary"
    /\ \A k \in DOMAIN toolchain : toolchain[k]

NextRetry ==
    \/ EditSource
    \/ EditConfiguration
    \/ CleanObject
    \/ StartRun
    \/ TaskDispatch
    \/ MainReturn
    \/ MethodReturn
    \/ BuildBegin
    \/ CompileSource
    \/ BuildJoin
    \/ BuildLink
    \/ BuildOnExecute
    \/ BuildOnExecuteCollected
    \/ BuildOnExecuteAfterDependencies
    \/ BuildOnExecuteAfterBuild
    \/ BuildDependenciesLoop
    \/ BuildDependenciesBuild
    \/ BuildDependenciesNext
    \/ ProjectBuild
    \/ ProjectBuildAfterDependencies
    \/ ProjectBuildCollected
    \/ ProjectBuildAfterSourceCode
    \/ ProjectBuildDependenciesLoop
    \/ ProjectBuildDependenciesNext

\* builds repeated over a tree whose sources, configuration text and object
\* files change between them
SpecRetry == InitRetry /\ [][NextRetry]_vars


\* a tree in which one directory is reached twice: app declares liba and
\* libb, and liba declares libb
Diamond ==
    [d \in Dirs |->
        [Chain[d] EXCEPT !.dependencies =
            CASE d = "app" -> <<Local("liba"), Local("libb")>>
              [] d = "liba" -> <<Local("libb")>>
              [] d = "libb" -> <<>>]]

\* the build of app on that tree, every tool installed, libraries static
InitDiamond ==
    /\ conf = [d \in Dirs |->
                  [name |-> Diamond[d].name,
                   language |-> Diamond[d].language,
                   distribution |-> IF d = "app" THEN "Executable"
                                    ELSE "StaticLibrary",
                   sources |-> Diamond[d].sources,
                   includes |-> Diamond[d].includes,
                   dependencies |-> Diamond[d].dependencies]]
    /\ conf_rev = [d \in Dirs |-> 0]
    /\ src = [f \in SourceFiles |-> "rev0"]
    /\ objs = {}
    /\ cache = [d \in Dirs |-> [exists |-> FALSE, map |-> EmptyMap]]
    /\ arts = {}
    /\ bakery_dirs = {}
    /\ toolchain = [k \in {"gcc_location", "gpp_location", "ar_location"} |-> TRUE]
    /\ cwd = "app"
    /\ entry \in {"task", "method"}
    /\ cmd = "build"
    /\ phase = "idle"
    /\ ctx = [opened |-> FALSE]
    /\ todo = <<>>
    /\ stack = <<>>
    /\ ret = Ok("none", <<>>)
    /\ batch = <<>>
    /\ log = <<>>
    /\ diag = <<>>
    /\ runs = 0
    /\ edits = 0
    /\ quiet = FALSE
    /\ touched = FALSE
    /\ prev_diag = <<>>
    /\ edited = {}
    /\ removals = 0
    /\ SchedulerIdle
    /\ FoldIdle
    /\ NameIdle

NextDiamond ==
    \/ EditSource
    \/ RemoveObject
    \/ StartRun
    \/ TaskDispatch
    \/ MainReturn
    \/ MethodReturn
    \/ BuildBegin
    \/ CompileSource
    \/ BuildJoin
    \/ BuildLink
    \/ BuildOnExecute
    \/ BuildOnExecuteCollected
    \/ BuildOnExecuteAfterDependencies
    \/ BuildOnExecuteAfterBuild
    \/ BuildDependenciesLoop
    \/ BuildDependenciesBuild
    \/ BuildDependenciesNext
    \/ ProjectBuild
    \/ ProjectBuildAfterDependencies
    \/ ProjectBuildCollected
    \/ ProjectBuildAfterSourceCode
    \/ ProjectBuildDependenciesLoop
    \/ ProjectBuildDependenciesNext

SpecDiamond == InitDiamond /\ [][NextDiamond]_vars

\* what may be wrong with the bakery.toml of a directory: its name, an
\* include that is no directory, or the file is not there at all
Faults == {"none", "InvalidName", "IncorrectInclude", "InvalidProjectPath"}

\* the configurations of a tree with the given faults
Faulty(table, fault) ==
    [d \in { x \in Dirs : fault[x] # "InvalidProjectPath" } |->
        [name |-> IF fault[d] = "InvalidName" THEN <<"_">> ELSE table[d].name,
         language |-> table[d].language,
         distribution |-> IF d = "app" THEN "Executable" ELSE "StaticLibrary",
         sources |-> table[d].sources,
         includes |-> IF fault[d] = "IncorrectInclude"
                      THEN Append(table[d].includes, "missing")
                      ELSE table[d].includes,
         dependencies |-> table[d].dependencies]]

\* main is started in app on a tree of either shape with any faults
InitOpen ==
    /\ \E table \in {Chain, Diamond} : \E fault \in [Dirs -> Faults] :
           conf = Faulty(table, fault)
    /\ conf_rev = [d \in Dirs |-> 0]
    /\ src = [f \in SourceFiles |-> "rev0"]
    /\ objs = {}
    /\ cache = [d \in Dirs |-> [exists |-> FALSE, map |-> EmptyMap]]
    /\ arts = {}
    /\ bakery_dirs = {}
    /\ toolchain = [k \in {"gcc_location", "gpp_location", "ar_location"} |-> TRUE]
    /\ cwd = "app"
    /\ entry = "task"
    /\ cmd = "build"
    /\ phase = "idle"
    /\ ctx = [opened |-> FALSE]
    /\ todo = <<>>
    /\ stack = <<>>
    /\ ret = Ok("none", <<>>)
    /\ batch = <<>>
    /\ log = <<>>
    /\ diag = <<>>
    /\ runs = 0
    /\ edits = 0
    /\ quiet = FALSE
    /\ touched = FALSE
    /\ prev_diag = <<>>
    /\ edited = {}
    /\ removals = 0
    /\ SchedulerIdle
    /\ FoldIdle
    /\ NameIdle

\* main.rs line 45: the project of the current directory is opened
NextOpen == StartRun

SpecOpen == InitOpen /\ [][NextOpen]_vars

(***************************************************************************)
(* Part III: the parallel fold and reduce of one compile batch             *)
(* (src/task/build.rs 354-394, src/project.rs 378-411): par_iter() splits  *)
(* the list into pieces, each piece is folded from the identity by one     *)
(* worker, and the results of neighbouring pieces are reduced              *)
(***************************************************************************)

\* the longest list of sources of the bounded batches
MaxBatch == 3

\* the files of the bounded batches; a list may name a file more than once
FoldFiles == {"a.c", "b.c"}

\* what compiling and hashing a source comes to in the attempt
FoldOutcomes == {"ok", "FailedToCompile", "FailedToHash"}

\* the bytes of the files of the bounded batches
FoldContent(source) == IF source = "a.c" THEN "rev0" ELSE "rev1"

\* compile_source_file / build_source_file returns Ok
CompileOk(source) == fold_outcome[source] # "FailedToCompile"

\* File::open and hash_file return Ok
HashOk(source) == fold_outcome[source] # "FailedToHash"

\* the identity closures: (HashMap::new(), Vec::new())
FoldIdentity == [hashes |-> EmptyMap, errors |-> <<>>]

\* HashMap::insert
Insert(hashes, key, value) ==
    [k \in DOMAIN hashes \cup {key} |-> IF k = key THEN value ELSE hashes[k]]

\* HashMap::extend: an entry of the second map replaces one of the first
Extend(hashes1, hashes2) ==
    [k \in DOMAIN hashes1 \cup DOMAIN hashes2 |->
        IF k \in DOMAIN hashes2 THEN hashes2[k] ELSE hashes1[k]]

\* a plausible slip: the source is hashed before the compiler is run, and
\* the digest is kept whatever the compiler returns
FoldClosureHashingFirst(acc, source) ==
    LET hashed == IF HashOk(source)
                  THEN [acc EXCEPT !.hashes = Insert(acc.hashes, source,
                                                     Blake3(FoldContent(source)))]
                  ELSE [acc EXCEPT !.errors =
                           Append(acc.errors, [e |-> "FailedToHash", source |-> source])]
    IN IF CompileOk(source) THEN hashed
       ELSE [hashed EXCEPT !.errors =
                Append(hashed.errors, [e |-> "FailedToCompile", source |-> source])]

\* the fold closure, build.rs 358-384 (project.rs 382-401): the source is
\* compiled; if that succeeds it is opened and hashed, and the digest is
\* inserted; a failure of either is pushed on the errors
FoldClosure(acc, source) ==
    IF CompileOk(source)
    THEN IF HashOk(source)
         THEN [acc EXCEPT !.hashes = Insert(acc.hashes, source,
                                            Blake3(FoldContent(source)))]
         ELSE [acc EXCEPT !.errors =
                  Append(acc.errors, [e |-> "FailedToHash", source |-> source])]
    ELSE [acc EXCEPT !.errors =
             Append(acc.errors, [e |-> "FailedToCompile", source |-> source])]

\* a plausible slip: hashes1.extend(hashes2) is left out
ReduceClosureDroppingHashes(a, b) ==
    [hashes |-> a.hashes, errors |-> a.errors \o b.errors]

\* the reduce closure, build.rs 386-394 (project.rs 403-411)
ReduceClosure(a, b) ==
    [hashes |-> Extend(a.hashes, b.hashes), errors |-> a.errors \o b.errors]

\* a piece of the list, indices lo..hi, not yet handed to a worker
Job(lo, hi) == [lo |-> lo, hi |-> hi, next |-> lo, started |-> FALSE, acc |-> FoldIdentity]

\* the worker of the piece has folded its last source
Finished(job) == job.next > job.hi

FoldInit ==
    /\ fold_sources \in SeqsUpTo(FoldFiles, MaxBatch)
    /\ fold_outcome \in [FoldFiles -> FoldOutcomes]
    /\ jobs = <<Job(1, Len(fold_sources))>>
    /\ fold_log = <<>>
    /\ fold_result = [done |-> FALSE]
    /\ SchedulerIdle
    /\ BuildIdle
    /\ NameIdle

\* rayon splits a piece no worker has started on in two
FoldSplit ==
    /\ \E j \in DOMAIN jobs :
        /\ ~jobs[j].started
        /\ jobs[j].hi > jobs[j].lo
        /\ \E mid \in jobs[j].lo..(jobs[j].hi - 1) :
               jobs' = SubSeq(jobs, 1, j - 1)
                       \o <<Job(jobs[j].lo, mid), Job(mid + 1, jobs[j].hi)>>
                       \o SubSeq(jobs, j + 1, Len(jobs))
    /\ UNCHANGED <<fold_sources, fold_outcome, fold_log, fold_result>>
    /\ UNCHANGED <<svars, bvars, namevars, objectvars>>

\* a plausible slip: a worker stops folding its piece at the first error
FoldStepStoppingAtError ==
    /\ \E j \in DOMAIN jobs :
        /\ ~Finished(jobs[j])
        /\ LET job == jobs[j]
               acc == FoldClosure(job.acc, fold_sources[job.next])
           IN /\ jobs' = [jobs EXCEPT ![j] =
                             [job EXCEPT !.acc = acc,
                                         !.next = IF acc.errors # <<>> THEN job.hi + 1
                                                  ELSE job.next + 1,
                                         !.started = TRUE]]
              /\ fold_log' = Append(fold_log, job.next)
    /\ UNCHANGED <<fold_sources, fold_outcome, fold_result>>
    /\ UNCHANGED <<svars, bvars, namevars, objectvars>>

\* a worker calls the fold closure on the next source of its piece
FoldStep ==
    /\ \E j \in DOMAIN jobs :
        /\ ~Finished(jobs[j])
        /\ LET job == jobs[j]
           IN /\ jobs' = [jobs EXCEPT ![j] =
                             [job EXCEPT !.acc = FoldClosure(job.acc, fold_sources[job.next]),
                                         !.next = job.next + 1,
                                         !.started = TRUE]]
              /\ fold_log' = Append(fold_log, job.next)
    /\ UNCHANGED <<fold_sources, fold_outcome, fold_result>>
    /\ UNCHANGED <<svars, bvars, namevars, objectvars>>

\* the results of two neighbouring pieces, both folded, are reduced to one
FoldReduce ==
    /\ \E j \in 1..(Len(jobs) - 1) :
        /\ Finished(jobs[j])
        /\ Finished(jobs[j + 1])
        /\ jobs' = SubSeq(jobs, 1, j - 1)
                   \o <<[lo |-> jobs[j].lo, hi |-> jobs[j + 1].hi,
                         next |-> jobs[j + 1].hi + 1, started |-> TRUE,
                         acc |-> ReduceClosure(jobs[j].acc, jobs[j + 1].acc)]>>
                   \o SubSeq(jobs, j + 2, Len(jobs))
    /\ UNCHANGED <<fold_sources, fold_outcome, fold_log, fold_result>>
    /\ UNCHANGED <<svars, bvars, namevars, objectvars>>

\* reduce returns: let (hashes, errors) = ...
FoldReturn ==
    /\ ~fold_result.done
    /\ Len(jobs) = 1
    /\ Finished(jobs[1])
    /\ fold_result' = [done |-> TRUE,
                       hashes |-> ReduceClosure(FoldIdentity, jobs[1].acc).hashes,
                       errors |-> ReduceClosure(FoldIdentity, jobs[1].acc).errors]
    /\ UNCHANGED <<fold_sources, fold_outcome, jobs, fold_log>>
    /\ UNCHANGED <<svars, bvars, namevars, objectvars>>

FoldNext ==
    \/ FoldSplit
    \/ FoldStep
    \/ FoldReduce
    \/ FoldReturn

SpecFold == FoldInit /\ [][FoldNext]_vars


(***************************************************************************)
(* Part IV: the name check of Project::open (src/project.rs 124-128)       *)
(***************************************************************************)

\* the longest of the bounded names
MaxNameLen == 3

\* the characters of the bounded names: two letters, a digit, and a
\* character that is neither
NameChars == {"a", "Z", "7", "_"}

NameInit ==
    /\ name_input \in SeqsUpTo(NameChars, MaxNameLen)
    /\ name_result = "unset"
    /\ object_sources = <<>>
    /\ object_written = <<>>
    /\ object_list = <<>>
    /\ SchedulerIdle
    /\ BuildIdle
    /\ FoldIdle

\* lines 124-128: if !NAME_REGEX.is_match(name) { return Err(InvalidName) }
OpenChecksName ==
    /\ name_result = "unset"
    /\ name_result' = IF ~NameRegexIsMatch(name_input) THEN "InvalidName" ELSE "accepted"
    /\ UNCHANGED name_input
    /\ UNCHANGED <<svars, bvars, foldvars, objectvars>>

SpecName == NameInit /\ [][OpenChecksName]_vars


(***************************************************************************)
(* Part V: the object file of a source (src/task/build.rs 512-517,         *)
(* 197-207)                                                                *)
(***************************************************************************)

\* the deepest directory a bounded source path lies in
MaxPathDepth == 1

\* the bounded source paths: the directories below the project, the stem
\* and the extension of the file
SourceDirs == {"src", "lib"}
SourceStems == {"main", "util"}
SourceExtensions == {"c", "cpp"}
SourcePathsOf ==
    [dirs : SeqsUpTo(SourceDirs, MaxPathDepth), stem : SourceStems,
     ext : SourceExtensions]

\* Path::file_name: the last component of a path
FileName(path) == [dirs |-> <<>>, stem |-> path.stem, ext |-> path.ext]

\* Path::with_extension
WithExtension(path, extension) == [path EXCEPT !.ext = extension]

\* Path::join of a directory and a relative path
JoinPath(directory, path) == [path EXCEPT !.dirs = directory \o path.dirs]

BAKERY_BUILD_DIRECTORY == <<".bakery", "build">>
OBJECT_FILE_EXTENSION == "o"

\* lines 513-517 and 201-205: the object file of a source, below the
\* project:
\* join(BAKERY_BUILD_DIRECTORY).join(file_name(source)).with_extension("o")
ObjectFilePath(source) ==
    WithExtension(JoinPath(BAKERY_BUILD_DIRECTORY, FileName(source)),
                  OBJECT_FILE_EXTENSION)

\* a project that declares two different source paths, nothing compiled yet
ObjectsInit ==
    /\ object_sources \in { pair \in [1..2 -> SourcePathsOf] : pair[1] # pair[2] }
    /\ object_written = [i \in {} |-> <<>>]
    /\ object_list = <<>>
    /\ name_input = <<>>
    /\ name_result = "unset"
    /\ SchedulerIdle
    /\ BuildIdle
    /\ FoldIdle

\* Build::compile_source_file, lines 503-541: a worker of the batch compiles
\* one source into its object file
ObjectsCompile ==
    /\ \E i \in DOMAIN object_sources \ DOMAIN object_written :
           object_written' =
               [k \in DOMAIN object_written \cup {i} |->
                   IF k = i THEN ObjectFilePath(object_sources[i])
                   ELSE object_written[k]]
    /\ UNCHANGED <<object_sources, object_list>>
    /\ UNCHANGED <<svars, bvars, foldvars, namevars>>

\* Build::collect_object_files, lines 197-207: one object path for each
\* source
ObjectsCollect ==
    /\ DOMAIN object_written = DOMAIN object_sources
    /\ object_list = <<>>
    /\ object_list' = [i \in DOMAIN object_sources |->
                           ObjectFilePath(object_sources[i])]
    /\ UNCHANGED <<object_sources, object_written>>
    /\ UNCHANGED <<svars, bvars, foldvars, namevars>>

ObjectsNext == ObjectsCompile \/ ObjectsCollect

SpecObjects == ObjectsInit /\ [][ObjectsNext]_vars


(***************************************************************************)
(* Properties of the build                                                 *)
(***************************************************************************)

\* the events of one kind the run has made so far
EventsOf(ev) == { i \in DOMAIN log : log[i].ev = ev }

CompileInvocations == Cardinality(EventsOf("compile"))

\* the run has ended and reported no error
Succeeded == phase = "done" /\ diag = <<>>

\* a call of Build::build or Project::build_source_code that has just been
\* made: its sources are the stale set collected for its project
BatchCalled ==
    /\ phase = "running"
    /\ stack # <<>>
    /\ Top.fn \in BatchFns
    /\ Top.pc = "start"

\* the stale set of the project the running call works on has just been
\* collected, and is in the sources of the call
StaleSetCollected ==
    \/ BatchCalled
    \/ /\ phase = "running"
       /\ stack # <<>>
       /\ Top.pc = "collected"

\* C2: idempotence over any history of source edits and builds: a build that
\* follows a successful build with no file changed in between makes no
\* compile invocation, for the root or for any dependency, and succeeds.
C2_SecondBuildCompilesNothing ==
    (phase = "done" /\ quiet /\ prev_diag = <<>> /\ edited \subseteq {"source"}) =>
        (CompileInvocations = 0 /\ diag = <<>>)

\* the three conditions of the claim, read from the loaded cache and from
\* the disk and not from the filter of the code
NoCachedDigest(project, source) == source \notin DOMAIN project.hashes

ObjectFileAbsent(project, source) ==
    \A o \in objs : o # <<project.base_path, ObjectFileName(source)>>

DigestDiffers(project, source) ==
    /\ source \in DOMAIN project.hashes
    /\ project.hashes[source][2] # src[<<project.base_path, source>>]

\* C3: when has_project_configuration_changed is false, a source is in the
\* stale set exactly if it has no cached digest, or its object file is
\* absent from the build directory, or its content digest differs from the
\* cached one.
C3_StaleIffThreeConditions ==
    (StaleSetCollected /\ ~Current.has_project_configuration_changed) =>
        \A i \in DOMAIN Current.sources :
            LET source == Current.sources[i]
            IN (source \in Range(Top.sources)) <=>
                   \/ NoCachedDigest(Current, source)
                   \/ ObjectFileAbsent(Current, source)
                   \/ DigestDiffers(Current, source)

\* a stale set collected from a loaded cache that knows every source: one
\* source is stale only because its object file is gone, another is fresh
C3_Witness ==
    /\ StaleSetCollected
    /\ ~Current.has_project_configuration_changed
    /\ \E i, j \in DOMAIN Current.sources :
          /\ ~NoCachedDigest(Current, Current.sources[i])
          /\ ~DigestDiffers(Current, Current.sources[i])
          /\ ObjectFileAbsent(Current, Current.sources[i])
          /\ Current.sources[i] \in Range(Top.sources)
          /\ Current.sources[j] \notin Range(Top.sources)

\* the loaded cache records a digest of bakery.toml that is not the digest
\* of the file
ConfigurationDigestDiffers(project) ==
    /\ BUILD_CONFIGURATION_FILE \in DOMAIN project.hashes
    /\ project.hashes[BUILD_CONFIGURATION_FILE][2] # ConfBytes(project.base_path)

\* C4: if the digest of the configuration file at open differs from the one
\* recorded in the loaded cache, the stale set is the full source list.
C4_ChangedConfigurationAllStale ==
    (StaleSetCollected /\ ConfigurationDigestDiffers(Current)) =>
        Top.sources = Current.sources

\* a full rebuild forced by the configuration alone: a source whose digest
\* is recorded and unchanged and whose object file exists is in the stale set
C4_Witness ==
    /\ StaleSetCollected
    /\ ConfigurationDigestDiffers(Current)
    /\ \E i \in DOMAIN Current.sources :
          /\ ~NoCachedDigest(Current, Current.sources[i])
          /\ ~DigestDiffers(Current, Current.sources[i])
          /\ ~ObjectFileAbsent(Current, Current.sources[i])
          /\ Current.sources[i] \in Range(Top.sources)

\* the compile invocations the run made for the project at a position
CompilesAt(at) == { i \in EventsOf("compile") : log[i].at = at }

FailedCompilesAt(at) ==
    { i \in CompilesAt(at) : src[<<log[i].dir, log[i].what>>] = "syntax_error" }

\* a compile batch has just ended in an error
BatchFailed ==
    /\ phase = "running"
    /\ ret.from \in BatchFns
    /\ ~ret.ok
    /\ CompilesAt(ret.at) # {}
    /\ FailedCompilesAt(ret.at) # {}

\* C5: a compile batch of N stale sources of which k >= 1 fail ends the
\* build of the project with CompilationError carrying exactly k entries,
\* leaves the persisted cache file as it was loaded, and leaves on disk the
\* object files of the N-k sources that compiled.
C5_PartialFailure ==
    BatchFailed =>
        LET project == ProjectAt(ctx, ret.at)
        IN /\ ret.err.e = "CompilationError"
           /\ Len(ret.err.errors) = Cardinality(FailedCompilesAt(ret.at))
           /\ LoadHashes(project.base_path) = project.hashes
           /\ EventsOf("write_hashes") \cap { i \in DOMAIN log : log[i].at = ret.at } = {}
           /\ \A i \in CompilesAt(ret.at) \ FailedCompilesAt(ret.at) :
                  <<log[i].dir, ObjectFileName(log[i].what)>> \in objs

\* a batch of two sources of which one failed and one compiled
C5_Witness ==
    /\ BatchFailed
    /\ Cardinality(CompilesAt(ret.at)) = 2
    /\ Cardinality(FailedCompilesAt(ret.at)) = 1
    /\ \E i \in CompilesAt(ret.at) \ FailedCompilesAt(ret.at) :
          <<log[i].dir, ObjectFileName(log[i].what)>> \in objs

\* a bakery.toml of the tree under directory d declares a Local dependency
\* whose own bakery.toml declares the distribution Executable
RECURSIVE HasExecutableDependency(_)
HasExecutableDependency(d) ==
    \E i \in DOMAIN conf[d].dependencies :
        LET dependency == conf[d].dependencies[i]
        IN /\ dependency.kind = "Local"
           /\ \/ conf[dependency.path].distribution = "Executable"
              \/ HasExecutableDependency(dependency.path)

\* the tool has been started on the files as they are now
Started == phase \in {"running", "done"} /\ ~touched

\* C6: Project::open of a tree that has, at any depth, a Local dependency
\* whose distribution is Executable fails with the dependency-is-not-a-library
\* error: no Project is returned to build, and no compilation is started.
C6_OpenRejectsExecutableDependency ==
    (Started /\ HasExecutableDependency(cwd)) =>
        /\ phase = "done"
        /\ \E i \in DOMAIN diag : diag[i].e = "DependencyIsNotALibrary"
        /\ EventsOf("compile") = {}

\* what a build does for a project: compile, cache write, link or archive
BuildEvents == {"compile", "write_hashes", "link", "archive"}

\* position d is that of a Project-kind dependency of the project at p
IsDependencyOf(d, p) ==
    /\ Len(d) = Len(p) + 1
    /\ SubSeq(d, 1, Len(p)) = p

\* C7: post-order: whatever one build of the root does for a Project-kind
\* dependency D of a project P, it does before any source of P is compiled
\* and before P is linked or archived, and D's link or archive step has then
\* been made.
C7_PostOrder ==
    \A j \in DOMAIN log :
        log[j].ev \in {"compile", "link", "archive"} =>
            \A i \in DOMAIN log :
                (log[i].ev \in BuildEvents /\ IsDependencyOf(log[i].at, log[j].at)) =>
                    /\ i < j
                    /\ \E k \in i..(j - 1) :
                          /\ log[k].ev \in {"link", "archive"}
                          /\ log[k].at = log[i].at

\* a build of a three-level tree: the dependency of the dependency is
\* compiled and linked, then the dependency, then the root is compiled
C7_Witness ==
    \E i, j, k \in DOMAIN log :
        /\ i < j /\ j < k
        /\ log[i].ev = "compile" /\ Len(log[i].at) = 2
        /\ log[j].ev = "compile" /\ Len(log[j].at) = 1
        /\ log[k].ev = "compile" /\ log[k].at = <<>>
        /\ \E l \in DOMAIN log : log[l].ev \in {"link", "archive"} /\ log[l].at = <<>>

\* the positions of the Project-kind dependencies of the opened tree
DependencyPositions == Positions(ctx) \ {<<>>}

\* the loaded cache of the project has no digest of the source, or one that
\* is not the digest of the file
StaleByDigest(project, source) ==
    NoCachedDigest(project, source) \/ DigestDiffers(project, source)

\* C8: the build task builds the Project-kind dependencies before it looks
\* at the root's stale set: when it has ended without an error, every stale
\* source of every dependency has been compiled, whether or not the root had
\* a stale source.
C8_StaleDependencyIsRebuilt ==
    (Succeeded /\ ~touched /\ runs > 0 /\ cmd = "build") =>
        \A at \in DependencyPositions :
            LET project == ProjectAt(ctx, at)
            IN \A s \in DOMAIN project.sources :
                   StaleByDigest(project, project.sources[s]) =>
                       \E i \in CompilesAt(at) : log[i].what = project.sources[s]

\* the call that builds the dependencies of a project has returned the
\* failure of the build of one of them
DependencyBuildFailed ==
    /\ phase = "running"
    /\ ret.from \in {"Build::build_dependencies", "Project::build_dependencies"}
    /\ ~ret.ok
    /\ ret.err.e # "DependencyMustBeLibrary"

\* C9: when the build of a Project-kind dependency fails, the dependent
\* fails with FailedToBuildDependency wrapping the dependency's error; no
\* source of the run is compiled twice, and the dependent has made no
\* compile, no link or archive and no cache write.
C9_DependencyFailureIsWrapped ==
    DependencyBuildFailed =>
        /\ ret.err.e = "FailedToBuildDependency"
        /\ \A i, j \in EventsOf("compile") :
               (log[i].at = log[j].at /\ log[i].what = log[j].what) => i = j
        /\ \A i \in DOMAIN log : log[i].ev \in BuildEvents => log[i].at # ret.at

\* the run has told its caller or its user that it refuses the project
RunRefused ==
    \E i \in DOMAIN diag :
        diag[i].e \in {"CannotRunNonExecutable",
                       "Skipping run task because the project is not an executable"}

\* C10: run on a project whose distribution is not Executable is refused
\* and launches no process.
C10_NonExecutableIsNotRun ==
    (phase = "done" /\ ~touched /\ runs > 0 /\ cmd = "run"
        /\ conf[cwd].distribution # "Executable") =>
        /\ RunRefused
        /\ EventsOf("launch") = {}

\* the failures a build reports
BuildFailures ==
    {"ToolNotFound", "Failed to build dependencies", "CompilationError", "LinkageError",
     "ArchivalError", "FailedToSaveHashes", "FailedToCopyArtifacts",
     "FailedToBuildDependency", "DependencyMustBeLibrary", "FailedToBuildProject"}

\* the build of this run has reported a failure
BuildFailureReported == \E i \in DOMAIN diag : diag[i].e \in BuildFailures

\* C11: run launches the executable only after the build of the same
\* invocation has completed successfully: whatever the build does comes
\* before the launch, and after a failed build there is no launch.
C11_LaunchOnlyAfterSuccessfulBuild ==
    \A l \in EventsOf("launch") :
        /\ cmd = "run"
        /\ ~BuildFailureReported
        /\ \A i \in DOMAIN log : log[i].ev \in BuildEvents => i < l

\* the file copies the run made for the project at a position
CopiesAt(at) == { i \in EventsOf("copy") : log[i].at = at }

\* C13: artifact propagation never copies a file onto itself, and it makes
\* no copy for a DynamicLibrary project that has no Project-kind dependency.
C13_NoSelfCopy ==
    \A i \in EventsOf("copy") :
        LET project == ProjectAt(ctx, log[i].at)
        IN /\ log[i].what.from # log[i].what.to
           /\ ~(/\ project.distribution = "DynamicLibrary"
                /\ CollectProjectDependencies(project) = <<>>)

\* a DynamicLibrary root with dynamic dependencies has been built: its own
\* artifact, first of the collected list, is the only one not copied
C13_Witness ==
    /\ Succeeded
    /\ EventsOf("link") # {}
    /\ CopiesAt(<<>>) # {}
    /\ ctx.distribution = "DynamicLibrary"
    /\ Cardinality(CopiesAt(<<>>)) = Len(CollectArtifacts(ctx)) - 1

\* the loaded cache has no digest of bakery.toml
NoConfigurationDigest(project) == BUILD_CONFIGURATION_FILE \notin DOMAIN project.hashes

\* C14: has_project_configuration_changed, as open computes it for every
\* project of the tree, is true exactly when the loaded cache has no digest
\* of the configuration file or the recorded digest is not that of the file.
C14_ConfigurationChangedIffAbsentOrDiffers ==
    phase = "running" =>
        \A at \in Positions(ctx) :
            LET project == ProjectAt(ctx, at)
            IN project.has_project_configuration_changed <=>
                   (NoConfigurationDigest(project) \/ ConfigurationDigestDiffers(project))

\* the sources the run has compiled for the project at a position
CompiledAt(at) == { log[i].what : i \in CompilesAt(at) }

\* a call of Build::build or Project::build_source_code has just returned Ok
BatchSucceeded ==
    /\ phase = "running"
    /\ ret.from \in BatchFns
    /\ ret.ok

\* C15: after a successful build of a project the cache file is the merge of
\* the loaded cache with the new digests: it holds the digest of the
\* configuration file, the new digest of every source compiled in this
\* attempt and the loaded digest of every other source, so every source of
\* the project has an entry.
C15_CacheIsMerged ==
    BatchSucceeded =>
        LET project == ProjectAt(ctx, ret.at)
            saved == LoadHashes(project.base_path)
        IN /\ BUILD_CONFIGURATION_FILE \in DOMAIN saved
           /\ saved[BUILD_CONFIGURATION_FILE] = Blake3(ConfBytes(project.base_path))
           /\ \A i \in DOMAIN project.sources :
                  LET source == project.sources[i]
                  IN /\ source \in DOMAIN saved
                     /\ IF source \in CompiledAt(ret.at)
                        THEN saved[source] = Blake3(src[<<project.base_path, source>>])
                        ELSE /\ source \in DOMAIN project.hashes
                             /\ saved[source] = project.hashes[source]

\* C16: a project whose stale set is empty is a no-op inside a build: no
\* batch is started for it, so nothing is linked or archived and no cache
\* file is written for a project none of whose sources was compiled, and the
\* run reports no error for it.
C16_EmptyStaleSetIsNoOp ==
    /\ BatchCalled => Top.sources # <<>>
    /\ \A i \in DOMAIN log :
           log[i].ev \in {"write_hashes", "link", "archive"} => CompilesAt(log[i].at) # {}
    /\ (phase = "running" /\ stack # <<>> /\ Top.pc = "collected" /\ Top.sources = <<>>) =>
           ~BuildFailureReported

\* C18: join barrier: the link or archive step of a project is reached only
\* when every source of its batch has been compiled, whatever the order of
\* the workers, and none of them failed; every compile of the project comes
\* before its link or archive.
C18_JoinBarrier ==
    /\ (phase = "running" /\ stack # <<>> /\ Top.fn \in BatchFns /\ Top.pc = "link") =>
           /\ Range(Top.sources) \subseteq CompiledAt(Top.at)
           /\ FailedCompilesAt(Top.at) = {}
    /\ \A l \in EventsOf("link") \cup EventsOf("archive") :
           /\ \A i \in CompilesAt(log[l].at) : i < l
           /\ ~touched => FailedCompilesAt(log[l].at) = {}

\* the batch of two sources has joined, its second source compiled first
C18_Witness ==
    /\ phase = "running" /\ stack # <<>> /\ Top.fn \in BatchFns /\ Top.pc = "link"
    /\ Len(Top.sources) = 2
    /\ \E i, j \in CompilesAt(Top.at) :
          /\ i < j
          /\ log[i].what = Top.sources[2]
          /\ log[j].what = Top.sources[1]

\* a tool location is missing from the toolchain configuration
SomeToolMissing == \E k \in DOMAIN toolchain : ~toolchain[k]

\* C19: with the location of the C compiler, the C++ compiler or the
\* archiver missing, the build makes no compile, no link or archive, no
\* directory and no cache write, for the root or for any dependency.
C19_MissingToolStopsBuild ==
    SomeToolMissing =>
        \A i \in DOMAIN log : log[i].ev \notin (BuildEvents \cup {"mkdir"})

\* a run with the archiver missing has ended, reporting the tool
C19_Witness ==
    /\ phase = "done"
    /\ runs > 0
    /\ ~toolchain["ar_location"]
    /\ \/ \E i \in DOMAIN diag : diag[i].e = "ToolNotFound" /\ diag[i].tool = "Archiver"
       \/ \E i \in DOMAIN diag :
             /\ diag[i].e = "FailedToBuildProject"
             /\ diag[i].inner.e = "ToolNotFound"

\* hashes.json of the project of the running batch has just been written
CacheWritten ==
    /\ phase = "running"
    /\ stack # <<>>
    /\ Top.fn \in BatchFns
    /\ Top.pc = "link"

\* C20: the cache file a successful attempt writes holds the digest of the
\* configuration file and the digest of every source compiled in the
\* attempt, and nothing else: the entry of a source that was not compiled is
\* dropped.
C20_CacheHoldsOnlyThisAttempt ==
    CacheWritten =>
        LET project == Current
            file == cache[project.base_path]
        IN /\ file.exists
           /\ DOMAIN file.map = {BUILD_CONFIGURATION_FILE} \cup CompiledAt(Top.at)
           /\ file.map[BUILD_CONFIGURATION_FILE][2] = ConfBytes(project.base_path)
           /\ \A source \in CompiledAt(Top.at) :
                  file.map[source][2] = src[<<project.base_path, source>>]

\* a write that drops the loaded entry of a source that was not recompiled
C20_Witness ==
    /\ CacheWritten
    /\ CompiledAt(Top.at) # {}
    /\ \E source \in DOMAIN Current.hashes \ {BUILD_CONFIGURATION_FILE} :
          /\ source \notin CompiledAt(Top.at)
          /\ source \notin DOMAIN cache[Current.base_path].map

\* the stale set a run started on the files as they are collects for the
\* project at a position of the tree: the project's cache, objects, sources
\* and configuration are touched by no build but its own
NextStaleSet(at) ==
    Range(CollectSourcesToCompile(ProjectAt(Open(cwd).project, at)))

\* a run has ended, a compile batch of it has failed for the project at the
\* position, and no file has changed since
FailedAttempt(at) ==
    /\ phase = "done"
    /\ runs > 0
    /\ ~touched
    /\ at \in Positions(ctx)
    /\ FailedCompilesAt(at) # {}

\* the sources of the failed batch that compiled
CompiledOkAt(at) == { log[i].what : i \in CompilesAt(at) \ FailedCompilesAt(at) }

\* C21 as stated: after a build attempt of a project fails in its compile
\* batch, with no file edited in between, every source that was stale in the
\* failed attempt (every source of its batch) is stale again in the next run,
\* the sources that compiled in the failed attempt included.
C21_FailedBatchStaleAgain ==
    \A at \in Positions(Open(cwd).project) :
        FailedAttempt(at) => CompiledAt(at) \subseteq NextStaleSet(at)

\* the source was in the stale set of the attempt for a reason the attempt
\* could not remove: the loaded cache had no digest of it or another digest,
\* or the configuration had changed, or its compile failed
StaleBeyondObject(at, source) ==
    LET project == ProjectAt(ctx, at)
    IN \/ StaleByDigest(project, source)
       \/ project.has_project_configuration_changed
       \/ source \notin CompiledOkAt(at)

\* C21 amended: after a failed compile batch, with no file edited in between,
\* every source of the batch that had no cached digest, a digest that differs,
\* a changed configuration or a failed compile is stale again in the next
\* run, whether or not it compiled; a source that was stale only because its
\* object file was absent and that compiled is not.
C21_DigestStaleAgainAfterFailure ==
    \A at \in Positions(Open(cwd).project) :
        FailedAttempt(at) =>
            \A source \in CompiledAt(at) :
                IF StaleBeyondObject(at, source)
                THEN source \in NextStaleSet(at)
                ELSE source \notin NextStaleSet(at)

\* a failed batch in which a source without a usable cached digest compiled:
\* its object file is there, the cache was not written, and it is stale again
C21_Witness ==
    \E at \in Positions(Open(cwd).project) :
        /\ FailedAttempt(at)
        /\ \E source \in CompiledOkAt(at) :
              /\ StaleByDigest(ProjectAt(ctx, at), source)
              /\ ~ObjectFileAbsent(ProjectAt(ctx, at), source)
              /\ source \in NextStaleSet(at)

\* a compile batch is being run: the call has been made and has not joined
BatchRunning ==
    /\ phase = "running"
    /\ stack # <<>>
    /\ Top.fn \in BatchFns
    /\ Top.pc \in {"start", "batch"}

\* the cache writes the run made for the project at a position
CacheWritesAt(at) == { i \in EventsOf("write_hashes") : log[i].at = at }

\* C22: while the compile batch of a project runs, its cache file is as it
\* was loaded, whichever workers have finished; the file is written at most
\* once in a build of the project, and after every compile of its batch.
C22_CacheWrittenOnceAfterJoin ==
    /\ BatchRunning =>
           /\ cache[Current.base_path].exists = (DOMAIN Current.hashes # {})
           /\ LoadHashes(Current.base_path) = Current.hashes
           /\ CacheWritesAt(Top.at) = {}
    /\ \A w \in EventsOf("write_hashes") :
           /\ CacheWritesAt(log[w].at) = {w}
           /\ \A i \in CompilesAt(log[w].at) : i < w

\* a batch of two in which one worker has compiled and hashed its source and
\* the other has not started
C22_Witness ==
    /\ BatchRunning
    /\ Top.pc = "batch"
    /\ \E j, k \in DOMAIN batch : batch[j] = Pending /\ batch[k].st = "ok"

\* the entries of the list whose compile and hash both succeed
FoldOkEntries == { i \in DOMAIN fold_sources : fold_outcome[fold_sources[i]] = "ok" }

\* the entries of the list that name the source
EntriesOf(source) == { i \in DOMAIN fold_sources : fold_sources[i] = source }

\* C23: the result of a compile batch does not depend on scheduling: for a
\* fixed list of sources and fixed outcomes, whatever the split of the list
\* among workers and whatever the order of their steps, the reduce returns
\* the digest of every source that compiled and hashed, and one error for
\* every entry that did not (the same multiset of errors).
C23_BatchResultIndependentOfSchedule ==
    fold_result.done =>
        /\ fold_result.hashes =
               [source \in { fold_sources[i] : i \in FoldOkEntries } |->
                   Blake3(FoldContent(source))]
        /\ \A source \in FoldFiles : \A e \in FoldOutcomes \ {"ok"} :
               Cardinality({ k \in DOMAIN fold_result.errors :
                               fold_result.errors[k] = [e |-> e, source |-> source] })
               = IF fold_outcome[source] = e THEN Cardinality(EntriesOf(source)) ELSE 0

\* a list of three split among workers that did not fold it front to back:
\* digests and errors have both been collected
C23_Witness ==
    /\ fold_result.done
    /\ Len(fold_sources) = 3
    /\ fold_log[1] = 3
    /\ fold_log[2] = 1
    /\ DOMAIN fold_result.hashes # {}
    /\ fold_result.errors # <<>>

\* what the entries lo..(next - 1) of the list have put in an accumulator
Accounted(acc, lo, next) ==
    LET folded == lo..(next - 1)
    IN /\ DOMAIN acc.hashes = { fold_sources[i] : i \in folded \cap FoldOkEntries }
       /\ Len(acc.errors) = Cardinality(folded \ FoldOkEntries)
       /\ \A k \in DOMAIN acc.errors :
              /\ acc.errors[k].source \notin DOMAIN acc.hashes
              /\ acc.errors[k].e = fold_outcome[acc.errors[k].source]

\* C24: a digest is collected for a source only if its compile (and its
\* hash) succeeded in the same attempt; every entry of the batch folded so
\* far has put into the accumulator either its digest or one error, a
\* compile failure or a failure to hash after a compile, never both and
\* never neither.
C24_DigestOrError ==
    /\ \A j \in DOMAIN jobs : Accounted(jobs[j].acc, jobs[j].lo, jobs[j].next)
    /\ fold_result.done => Accounted(fold_result, 1, Len(fold_sources) + 1)

\* a batch has returned a digest and the error of a source that compiled and
\* could not be hashed
C24_Witness ==
    /\ fold_result.done
    /\ DOMAIN fold_result.hashes # {}
    /\ \E k \in DOMAIN fold_result.errors : fold_result.errors[k].e = "FailedToHash"

\* the calls of the fold closure on an entry of the list
CallsOn(i) == { k \in DOMAIN fold_log : fold_log[k] = i }

\* C25: every source of the list handed to the batch gets exactly one
\* compile invocation, whether and when other sources of the batch fail: the
\* closure is never called twice on an entry, and when the batch returns it
\* has been called on every entry.
C25_EverySourceCompiledOnce ==
    /\ \A i \in DOMAIN fold_sources : Cardinality(CallsOn(i)) <= 1
    /\ fold_result.done =>
           \A i \in DOMAIN fold_sources : Cardinality(CallsOn(i)) = 1

\* a batch of three has returned: the first source a worker took failed to
\* compile, and a source of the same piece compiled after it
C25_Witness ==
    /\ fold_result.done
    /\ Len(fold_sources) = 3
    /\ fold_log = <<1, 2, 3>>
    /\ Len(jobs) = 1
    /\ fold_outcome[fold_sources[1]] = "FailedToCompile"
    /\ fold_outcome[fold_sources[2]] = "ok"

\* the activations of Build::build and Project::build_source_code on the
\* call stack
BatchFrames == { i \in DOMAIN stack : stack[i].fn \in BatchFns }

\* C26: no two projects of the tree are compiling at the same time: at most
\* one batch is on the call stack, and it is the running call whenever a
\* worker is left; the compiles of two projects are not interleaved, and
\* between the compiles of one project and those of the next lies the link
\* or archive step of the first.
C26_OneProjectCompilesAtATime ==
    /\ Cardinality(BatchFrames) <= 1
    /\ batch # <<>> => (phase = "running" /\ stack # <<>> /\ Top.fn \in BatchFns
                           /\ Top.pc = "batch")
    /\ \A i, j \in EventsOf("compile") :
           (i < j /\ log[i].at # log[j].at) =>
               /\ \E k \in (i + 1)..(j - 1) :
                      /\ log[k].ev \in {"link", "archive"}
                      /\ log[k].at = log[i].at
               /\ \A k \in EventsOf("compile") : k > j => log[k].at # log[i].at

\* the batch of the root is running, one of its workers done and one left,
\* after the batches of both libraries, each followed by its link or archive
C26_Witness ==
    /\ phase = "running" /\ stack # <<>> /\ Top.fn \in BatchFns /\ Top.pc = "batch"
    /\ Top.at = <<>>
    /\ \E k \in DOMAIN batch : batch[k] = Pending
    /\ CompilesAt(<<>>) # {}
    /\ \E i, j \in EventsOf("compile") :
          /\ i < j
          /\ Len(log[i].at) = 2
          /\ Len(log[j].at) = 1

\* the whole name is a letter followed by one or more letters or digits
WholeNameIsValid(name) ==
    /\ Len(name) >= 2
    /\ name[1] \in {"a", "Z"}
    /\ \A i \in 2..Len(name) : name[i] \in {"a", "Z", "7"}

\* C27: Project::open accepts a name only if the name as a whole is a letter
\* followed by one or more letters or digits; an empty name, a name of one
\* character, a name that does not start with a letter or a name with a
\* character outside [a-zA-Z0-9] is refused with InvalidName.
C27_OnlyWholeNameAccepted ==
    /\ name_result = "accepted" => WholeNameIsValid(name_input)
    /\ name_result = "InvalidName" => ~WholeNameIsValid(name_input)

\* the Project-kind dependencies of the project at a position, as positions
ProjectDependenciesAt(at) ==
    LET project == ProjectAt(ctx, at)
        IsProject(i) == project.dependencies[i].kind = "Project"
    IN SelectSeq([i \in DOMAIN project.dependencies |-> i], IsProject)

\* the concatenation of the includes lists of the projects at the positions
RECURSIVE IncludesOfAll(_, _)
IncludesOfAll(at, indices) ==
    IF indices = <<>> THEN <<>>
    ELSE ProjectAt(ctx, Append(at, Head(indices))).includes
         \o IncludesOfAll(at, Tail(indices))

\* C28: the includes list of every project of an opened tree is its declared
\* includes, in declaration order, followed by the complete includes list of
\* each of its Project-kind dependencies, in dependency order: it covers the
\* whole subtree, a System dependency adds nothing, and a path that occurs
\* twice is kept twice.
C28_IncludesAreInherited ==
    phase = "running" =>
        /\ \A at \in Positions(ctx) :
               LET project == ProjectAt(ctx, at)
                   declared == conf[project.base_path].includes
               IN project.includes =
                      [i \in DOMAIN declared |-> <<project.base_path, declared[i]>>]
                      \o IncludesOfAll(at, ProjectDependenciesAt(at))
        /\ ctx.base_path = "app" =>
               ctx.includes = << <<"app", "include">>, <<"liba", "inc">>,
                                 <<"liba", "inc">>, <<"libb", "include">> >>

\* the tree of three projects is opened: the root, which declares one
\* include, a System dependency and one Project dependency, has four
\* includes, one of them twice
C28_Witness ==
    /\ phase = "running"
    /\ ctx.base_path = "app"
    /\ Len(conf["app"].includes) = 1
    /\ ctx.dependencies[1].kind = "System"
    /\ Len(ctx.includes) = 4
    /\ ctx.includes[2] = ctx.includes[3]

\* the existing files below a directory that a pattern matches
MatchesOf(base_path, pattern) ==
    { path \in Range(SourcePaths) :
        <<base_path, path>> \in DOMAIN src /\ PatternMatches(pattern, path) }

\* the last step of a batch has been taken: every worker has returned
BatchFinished ==
    /\ phase = "running"
    /\ stack # <<>>
    /\ Top.fn \in BatchFns
    /\ Top.pc = "batch"
    /\ \A k \in DOMAIN batch : batch[k] # Pending

\* the compile invocations of the running batch on one source
InvocationsOn(path) == { i \in CompilesAt(Top.at) : log[i].what = path }

\* C29: the sources of every project of an opened tree are the matches of
\* its first declared pattern, then those of its second, and so on, each
\* pattern giving each file it matches once; so a file that two patterns
\* match is there twice, and a batch in which it is stale invokes the
\* compiler on it twice.
C29_SourcesAreConcatenatedMatches ==
    /\ phase = "running" =>
           \A at \in Positions(ctx) :
               LET project == ProjectAt(ctx, at)
                   declared == conf[project.base_path].sources
                   sources == project.sources
               IN \E pattern_of \in [DOMAIN sources -> DOMAIN declared] :
                      /\ \A j, k \in DOMAIN sources :
                             j < k => /\ pattern_of[j] <= pattern_of[k]
                                      /\ pattern_of[j] = pattern_of[k]
                                             => sources[j] # sources[k]
                      /\ \A i \in DOMAIN declared :
                             { sources[k] : k \in { j \in DOMAIN sources :
                                                      pattern_of[j] = i } }
                                 = MatchesOf(project.base_path, declared[i])
    /\ BatchFinished =>
           \A path \in Range(Current.sources) :
               Cardinality(InvocationsOn(path)) =
                   IF path \in Range(Top.sources)
                   THEN Cardinality({ i \in DOMAIN conf[Current.base_path].sources :
                            path \in MatchesOf(Current.base_path,
                                               conf[Current.base_path].sources[i]) })
                   ELSE 0

\* a batch of the project whose patterns "b.c" and "*.c" match the same
\* file has finished: the file is twice in the sources and was compiled
\* twice
C29_Witness ==
    /\ BatchFinished
    /\ conf[Current.base_path].sources = <<"b.c", "*.c">>
    /\ Current.sources = <<"b.c", "b.c">>
    /\ Top.sources = <<"b.c", "b.c">>
    /\ Cardinality(InvocationsOn("b.c")) = 2

\* the link and archive steps of the run
LinkSteps == EventsOf("link") \cup EventsOf("archive")

\* the direct dependencies of a project that are projects distributed as
\* static libraries, as indices of its dependency list
StaticDependencies(project) ==
    { i \in DOMAIN project.dependencies :
        /\ project.dependencies[i].kind = "Project"
        /\ project.dependencies[i].project.distribution = "StaticLibrary" }

\* C30: the list handed to the link or archive step of a project holds one
\* object path for each entry of the project's sources, recompiled or not,
\* and after them the archive of each direct Project dependency that is a
\* StaticLibrary, in dependency order, and nothing else: no DynamicLibrary,
\* no System dependency, no dependency of a dependency.
C30_ObjectListOfLinkStep ==
    \A w \in LinkSteps :
        LET project == ProjectAt(ctx, log[w].at)
            object_files == log[w].what
            n == Len(project.sources)
            archives == SubSeq(object_files, n + 1, Len(object_files))
            static == StaticDependencies(project)
        IN /\ Len(object_files) = n + Cardinality(static)
           /\ \A i \in 1..n :
                  object_files[i] =
                      [kind |-> "object",
                       file |-> <<project.base_path,
                                  ObjectFileName(project.sources[i])>>]
           /\ \E dependency_of \in [DOMAIN archives -> static] :
                  /\ \A j, k \in DOMAIN archives :
                         j < k => dependency_of[j] < dependency_of[k]
                  /\ \A j \in DOMAIN archives :
                         LET dependency ==
                                 project.dependencies[dependency_of[j]].project
                         IN archives[j] =
                                [kind |-> "archive",
                                 file |-> <<dependency.base_path,
                                            ArtifactName(dependency.name,
                                                         "StaticLibrary")>>]

\* the root is linked in a run that recompiled only one of its two
\* sources; it has a System dependency and a static library, which has a
\* dynamic library of its own; the list holds both objects and the one
\* archive
C30_Witness ==
    \E w \in EventsOf("link") :
        /\ log[w].at = <<>>
        /\ ctx.base_path = "app"
        /\ CompiledAt(<<>>) = {"src/main.cpp"}
        /\ Len(ctx.sources) = 2
        /\ ctx.dependencies[1].kind = "System"
        /\ ctx.dependencies[2].project.distribution = "StaticLibrary"
        /\ ctx.dependencies[2].project.dependencies[1].project.distribution
               = "DynamicLibrary"
        /\ Len(log[w].what) = 3

\* the other case of the list: the dependency is a dynamic library that has
\* a static library of its own, and the list of the root holds the two
\* objects only
C30_WitnessDynamic ==
    \E w \in EventsOf("link") :
        /\ log[w].at = <<>>
        /\ ctx.base_path = "app"
        /\ ctx.dependencies[2].project.distribution = "DynamicLibrary"
        /\ ctx.dependencies[2].project.dependencies[1].project.distribution
               = "StaticLibrary"
        /\ Len(log[w].what) = 2

\* the projects of the subtree of the project at a position that are
\* distributed as dynamic libraries (the project itself is one of them)
DynamicLibrariesBelow(at) ==
    LET project == ProjectAt(ctx, at)
    IN { ProjectAt(project, below) : below \in
           { b \in Positions(project) :
               ProjectAt(project, b).distribution = "DynamicLibrary" } }

\* the build output directory of the project at a position holds the
\* artifact of every dynamic library of its subtree
HoldsDynamicLibraries(at) ==
    \A library \in DynamicLibrariesBelow(at) :
        <<ProjectAt(ctx, at).base_path,
          ArtifactName(library.name, "DynamicLibrary")>> \in arts

\* C31: after a build that succeeded, every project of the tree that
\* compiled at least one source, the root or a dependency, has in its build
\* output directory the artifact of every DynamicLibrary project of its
\* dependency subtree.
C31_DynamicLibrariesPropagated ==
    (Succeeded /\ ~touched) =>
        \A at \in Positions(ctx) :
            CompilesAt(at) # {} => HoldsDynamicLibraries(at)

\* the same of the root alone
C31_RootHoldsDynamicLibraries ==
    (Succeeded /\ ~touched /\ CompilesAt(<<>>) # {}) => HoldsDynamicLibraries(<<>>)

\* the same of the builds made by the methods of Project
C31_MethodPathPropagates ==
    entry = "method" => C31_DynamicLibrariesPropagated

\* the pairs of positions of the opened tree that hold the same directory
Occurrences2 ==
    { pq \in Positions(ctx) \X Positions(ctx) :
        /\ pq[1] # pq[2]
        /\ ProjectAt(ctx, pq[1]).base_path = ProjectAt(ctx, pq[2]).base_path }

\* the entries of the build step of the project at a position: the calls of
\* Build::build (each creates the directories first) in the task path, the
\* calls of Project::build in the method path
BuildStepsAt(at) ==
    IF entry = "task"
    THEN { i \in EventsOf("mkdir") : log[i].at = at }
    ELSE { i \in EventsOf("call") : log[i].at = at }

\* every project value of the tree holds the cache of its directory as it
\* was when the tree was opened: two values of one directory hold the same
\* snapshot, which is the file's content until the run writes the file
SnapshotsTakenAtOpen ==
    phase = "running" =>
        /\ \A pq \in Occurrences2 :
               ProjectAt(ctx, pq[1]).hashes = ProjectAt(ctx, pq[2]).hashes
        /\ \A at \in Positions(ctx) :
               LET project == ProjectAt(ctx, at)
               IN (\A w \in EventsOf("write_hashes") : log[w].dir # project.base_path)
                      => project.hashes = LoadHashes(project.base_path)

\* C32: a directory that is reached from the root through two dependency
\* paths is held by the opened tree as two project values, each with the
\* cache snapshot of the open, and a build of the root that succeeds has
\* run the build step of that directory once for each of the two values.
C32_BuiltOncePerOccurrence ==
    /\ SnapshotsTakenAtOpen
    /\ (Succeeded /\ ~touched) =>
           \A pq \in Occurrences2 :
               /\ Cardinality(BuildStepsAt(pq[1])) = 1
               /\ Cardinality(BuildStepsAt(pq[2])) = 1

\* the same of the builds that reach the dependencies: every build made by
\* Project::build, and the builds of the task in which the root has a stale
\* source
C32_BuiltOncePerOccurrenceWhenReached ==
    /\ SnapshotsTakenAtOpen
    /\ (Succeeded /\ ~touched /\ (entry = "method" \/ CompilesAt(<<>>) # {})) =>
           \A pq \in Occurrences2 :
               /\ Cardinality(BuildStepsAt(pq[1])) = 1
               /\ Cardinality(BuildStepsAt(pq[2])) = 1

\* a build has succeeded in which the directory libb, held at two positions,
\* was compiled at both: the second value still held the snapshot of the
\* open although the first had written the cache
C32_WitnessDoubleWork ==
    /\ Succeeded /\ ~touched
    /\ \E pq \in Occurrences2 :
          /\ ProjectAt(ctx, pq[1]).base_path = "libb"
          /\ CompilesAt(pq[1]) # {}
          /\ CompilesAt(pq[2]) # {}
          /\ ProjectAt(ctx, pq[2]).hashes # LoadHashes("libb")

\* the directories whose bakery.toml an evaluation trace has read
ReadIn(trace) == { trace[k].dir : k \in { j \in DOMAIN trace : trace[j].op = "read" } }

\* the evaluations of the sources and includes of a directory in a trace
OwnEvaluations(trace, d) ==
    { k \in DOMAIN trace : trace[k].dir = d /\ trace[k].op \in {"glob", "include"} }

\* C33: when the open of a Local dependency fails, however deep, the open
\* of every project above it fails with the same error and evaluates none of
\* its own sources or includes; a Project is returned only when every
\* project of the tree was opened.
C33_DependencyFailureEndsOpen ==
    /\ \A d \in DOMAIN conf :
           \A below \in ReadIn(Evaluations(d)) \ {d} :
               ~Open(below).ok =>
                   /\ ~Open(d).ok
                   /\ Open(d).err = Open(below).err
                   /\ OwnEvaluations(Evaluations(d), d) = {}
                   /\ Evaluations(d)[Len(Evaluations(d))]
                          = Evaluations(below)[Len(Evaluations(below))]
    /\ phase = "running" =>
           \A at \in Positions(ctx) :
               LET project == ProjectAt(ctx, at)
                   declared == conf[project.base_path].dependencies
               IN /\ Open(project.base_path).ok
                  /\ Len(project.dependencies) = Len(declared)
                  /\ \A i \in DOMAIN declared :
                         declared[i].kind = "Local" =>
                             /\ project.dependencies[i].kind = "Project"
                             /\ project.dependencies[i].project.base_path
                                    = declared[i].path
    /\ (phase = "done" /\ runs > 0) => diag = <<Open(cwd).err>>

\* main was started in app, whose dependency liba is well formed and
\* declares libb, whose name is invalid: the open of app has failed with
\* InvalidName after reading the three files
C33_Witness ==
    /\ phase = "done"
    /\ runs > 0
    /\ DOMAIN conf = Dirs
    /\ conf["app"].dependencies = <<System("m"), Local("liba")>>
    /\ Open("liba").err = [e |-> "InvalidName"]
    /\ NameRegexIsMatch(conf["liba"].name)
    /\ ~NameRegexIsMatch(conf["libb"].name)
    /\ ReadIn(Evaluations("app")) = Dirs
    /\ diag = <<[e |-> "InvalidName"]>>

\* C34: within one project two different source paths have two different
\* object files: no two workers of a batch write the same object file, and
\* the object list names no file twice.
C34_DistinctSourcesDistinctObjects ==
    /\ \A i, j \in DOMAIN object_written :
           object_sources[i] # object_sources[j]
               => object_written[i] # object_written[j]
    /\ \A i, j \in DOMAIN object_list :
           object_sources[i] # object_sources[j]
               => object_list[i] # object_list[j]

\* C35: after a build of the root that succeeded, and with no file edited
\* since, the tree opened again has an empty stale set at the root and at
\* every dependency: every project has a cached digest and an object file
\* for each of its sources.
C35_NothingStaleAfterSuccess ==
    (Succeeded /\ ~touched /\ cmd = "build") =>
        \A at \in Positions(Open(cwd).project) : NextStaleSet(at) = {}

\* the same of a first build, and of any build that compiled every source
\* of every project of the tree
C35_NothingStaleAfterFullBuild ==
    (Succeeded /\ ~touched /\ cmd = "build"
       /\ \A at \in Positions(Open(cwd).project) :
              CompiledAt(at) = Range(ProjectAt(Open(cwd).project, at).sources)) =>
        \A at \in Positions(Open(cwd).project) : NextStaleSet(at) = {}

\* the link and archive steps the run made for the project at a position
LinkStepsAt(at) == { w \in LinkSteps : log[w].at = at }

\* every project of the tree whose Project dependency was linked or
\* archived by the run was linked or archived after it
RelinkedAfterDependencies ==
    \A at \in Positions(ctx) :
        \A i \in DOMAIN ProjectAt(ctx, at).dependencies :
            ProjectAt(ctx, at).dependencies[i].kind = "Project" =>
                \A below \in LinkStepsAt(Append(at, i)) :
                    \E w \in LinkStepsAt(at) : w > below

\* C36: in a build of the root that succeeds, a project whose Project
\* dependency is linked or archived again is itself linked or archived
\* again, later in the same build: no artifact is older than the artifact
\* of a direct Project dependency.
C36_DependentRelinked ==
    (Succeeded /\ ~touched) => RelinkedAfterDependencies

\* the same of the builds of the task
C36_DependentRelinkedByTask ==
    (Succeeded /\ ~touched /\ entry = "task") => RelinkedAfterDependencies

PlaceIn(s, x) == CHOOSE i \in DOMAIN s : s[i] = x

\* neither task is a direct or transitive dependency of the other
Unrelated(x, y) == x \notin TransitiveDeps(y) /\ y \notin TransitiveDeps(x)

\* the declared dependencies of t have no dependency relation among themselves
IndependentDependencies(t) ==
    \A x \in Range(tasks[t]) : \A y \in Range(tasks[t]) : x # y => Unrelated(x, y)

\* the dependencies of t were executed in the order t declares them
RanInDeclaredOrder(t) ==
    \A i \in FirstPositions(tasks[t]) : \A j \in FirstPositions(tasks[t]) :
        i < j => PlaceIn(steps, tasks[t][i]) < PlaceIn(steps, tasks[t][j])

\* C38: for a task whose declared dependencies have no dependency relation
\* among themselves, directly or transitively, the finished run of
\* execute_task_and_its_dependencies has executed those dependencies in their
\* declared order, the first declared first, whichever task of the run
\* declares them.
C38_DeclaredOrderOfEveryTask ==
    spc = "done" =>
        \A t \in Reachable(root_task) :
            (Len(tasks[t]) > 1 /\ IndependentDependencies(t)) => RanInDeclaredOrder(t)

\* C38, of the task the function is called with: its independent declared
\* dependencies have been executed in their declared order, the first
\* declared first, although the last declared one was the first id recorded
\* after the task itself.
C38_DeclaredOrderOfRootTask ==
    (spc = "done" /\ Len(tasks[root_task]) > 1
                  /\ IndependentDependencies(root_task)) =>
            /\ RanInDeclaredOrder(root_task)
            /\ Reverse(result_stack)[1] = root_task
            /\ Reverse(result_stack)[2] = tasks[root_task][Len(tasks[root_task])]

\* a finished run of A->[B,C] with B and C unrelated and sharing D: C was
\* recorded before B, and B ran before C
C38_Witness ==
    /\ spc = "done"
    /\ root_task = "A"
    /\ tasks["A"] = <<"B", "C">>
    /\ tasks["B"] = <<"D">>
    /\ tasks["C"] = <<"D">>
    /\ IndependentDependencies("A")
    /\ PlaceIn(Reverse(result_stack), "C") < PlaceIn(Reverse(result_stack), "B")
    /\ PlaceIn(steps, "B") < PlaceIn(steps, "C")


(***************************************************************************)
(* The scheduler on tables that name an unregistered task                  *)
(***************************************************************************)

\* the ordered lists a task may declare: ids of a greater rank
DependencyLists(t) ==
    SeqsUpTo({ u \in TaskIds : Rank(u) > Rank(t) }, MaxDeps)

\* the tables that register exactly the tasks of ids
RECURSIVE TablesOn(_)
TablesOn(ids) ==
    IF ids = {} THEN { [t \in {} |-> <<>>] }
    ELSE LET last == CHOOSE t \in ids : \A u \in ids : Rank(u) <= Rank(t)
         IN { [t \in ids |-> IF t = last THEN list ELSE tb[t]] :
                tb \in TablesOn(ids \ {last}), list \in DependencyLists(last) }

\* task tables that register only some of the ids: a registered task declares
\* an ordered list of ids of a greater rank, registered or not
PartialTables ==
    UNION { TablesOn(registered) : registered \in (SUBSET TaskIds) \ {{}} }

\* main calls the function only with a subcommand the table holds
\* (tasks.contains_key, main.rs line 48)
SchedInitPartial ==
    /\ tasks \in PartialTables
    /\ root_task \in DOMAIN tasks
    /\ processing_stack = <<root_task>>
    /\ result_stack = <<>>
    /\ order = <<>>
    /\ steps = <<>>
    /\ spc = "traverse"
    /\ BuildIdle
    /\ FoldIdle
    /\ NameIdle

\* one iteration of the while loop on an id the table holds
SchedPopRegistered ==
    /\ processing_stack # <<>>
    /\ Head(processing_stack) \in DOMAIN tasks
    /\ SchedPop

\* an iteration that passes over an id the table does not hold
SchedSkipUnregistered ==
    /\ spc = "traverse"
    /\ processing_stack # <<>>
    /\ Head(processing_stack) \notin DOMAIN tasks
    /\ processing_stack' = Tail(processing_stack)
    /\ UNCHANGED <<tasks, root_task, result_stack, order, steps, spc>>
    /\ UNCHANGED <<bvars, pvars>>

\* one iteration of the while loop on an id the table does not hold: the id is
\* recorded (line 101) and tasks.get(current_task_id).unwrap() panics (line 103)
SchedPanic ==
    /\ spc = "traverse"
    /\ processing_stack # <<>>
    /\ Head(processing_stack) \notin DOMAIN tasks
    /\ result_stack' = PushFront(result_stack, Head(processing_stack))
    /\ processing_stack' = Tail(processing_stack)
    /\ spc' = "panicked"
    /\ UNCHANGED <<tasks, root_task, order, steps>>
    /\ UNCHANGED <<bvars, pvars>>

SchedNextPartial ==
    SchedPopRegistered \/ SchedPanic \/ SchedUnique \/ SchedExecute \/ SchedReturn

SpecSchedPartial == SchedInitPartial /\ [][SchedNextPartial]_vars

\* the dependencies a task declares, none for an id the table does not hold
DeclaredBy(t) == IF t \in DOMAIN tasks THEN Range(tasks[t]) ELSE {}

\* the ids reachable from the root through declared dependencies
RECURSIVE ReachIds(_, _)
ReachIds(frontier, seen) ==
    IF frontier \subseteq seen THEN seen
    ELSE LET new == frontier \ seen
         IN ReachIds(UNION { DeclaredBy(t) : t \in new }, seen \cup new)

\* an id reachable from the root is not registered in the table
UnregisteredReachable == ReachIds({root_task}, {}) \ DOMAIN tasks # {}

\* C39: the whole execution order is computed before any task runs (once a
\* task has run the traversal is over and the tasks run and still to run are
\* the deduplicated record); with a dependency id reachable from the root
\* that the table does not hold, the function never gets past its traversal,
\* which ends only in the abort, and no task's on_execute has been called.
C39_OrderBeforeExecution ==
    /\ spc \in {"execute", "done"} =>
           /\ processing_stack = <<>>
           /\ steps \o order = Unique(result_stack)
    /\ spc \in {"traverse", "panicked"} => steps = <<>>
    /\ UnregisteredReachable =>
           /\ spc \in {"traverse", "panicked"}
           /\ steps = <<>>
           /\ (spc = "traverse" => processing_stack # <<>>)
    /\ spc = "panicked" => (UnregisteredReachable /\ Head(result_stack) \notin DOMAIN tasks)

\* the abort on a table A->[B,C] with C registered and B not: C and its own
\* dependency were traversed first, then B was popped, and nothing has run
C39_Witness ==
    /\ spc = "panicked"
    /\ root_task = "A"
    /\ DOMAIN tasks = {"A", "C", "D"}
    /\ tasks["A"] = <<"B", "C">>
    /\ tasks["C"] = <<"D">>
    /\ result_stack = <<"B", "D", "C", "A">>
    /\ steps = <<>>

====
